---------------------------- MODULE Spec2Model ----------------------------
(***************************************************************************)
(* Meal-plan store of wisefood-api: MealPlanEntity (store_for_members,     *)
(* get_for_member_and_date, revoke) over the tables household_member,      *)
(* meal_plan and meal_plan_member.                                         *)
(*                                                                         *)
(* Ids are numbers: member ids so that sorted() has an order, plan ids     *)
(* because only their identity and their order (the id.desc() tie-break)   *)
(* matter.  Timestamps have day granularity: created_at is the day of the  *)
(* insert, so rows created on one day tie on created_at and fall to the id *)
(* order, which is arbitrary because a new id is any unused one.           *)
(***************************************************************************)
EXTENDS Integers, Sequences, FiniteSets, TLC

VARIABLES
    household_member,   \* table wisefood.household_member: rows [id, household_id]
    meal_plan,          \* table wisefood.meal_plan: rows of MealPlan
    meal_plan_member,   \* table wisefood.meal_plan_member: rows [meal_plan_id, member_id]
    today,              \* date.today() of the server clock
    last,               \* the call that has just returned: arguments and outcome
    before,             \* meal_plan and meal_plan_member as that call found them
    earlier,            \* last and before of the call it directly followed
    session,            \* the store_for_members transactions in progress
    household,          \* table wisefood.household: rows [id, owner_id]
    creating            \* the HouseholdEntity.create calls in progress

vars ==
    <<household_member, meal_plan, meal_plan_member, today, last, before,
      earlier, session, household, creating>>

---------------------------------------------------------------------------
\* Bounds of the model.

\* At most this many meal_plan rows at a time; plan ids are 1..MaxPlans.
MaxPlans == 2

\* The clock runs over the days 0..MaxDay.
MaxDay == 1

\* At most this many store_for_members transactions run side by side.
MaxSessions == 2

\* At most this many household rows at a time; household ids are
\* 1..MaxHouseholds.
MaxHouseholds == 3

---------------------------------------------------------------------------
\* The universe of inputs.

\* None, as the id of no plan (Optional[str]).
NoPlan == 0

PlanIds == 1..MaxPlans

Days == 0..MaxDay

\* Members 1, 2, 3 live in household 1, member 4 in household 2; id 5 is the
\* id of no member.
HouseholdMemberRows ==
    { [id |-> 1, household_id |-> 1], [id |-> 2, household_id |-> 1],
      [id |-> 3, household_id |-> 1], [id |-> 4, household_id |-> 2] }

MemberIds == { r.id : r \in HouseholdMemberRows } \cup { 5 }

\* The request's additional_member_ids: the lists with at most one entry,
\* and the lists of two members of household 1 (a repeated id included) up to
\* the order of their entries, which
\* sorted(set([requested_member_id, *additional_member_ids])) forgets.
AdditionalMemberIds ==
    { <<>> } \cup { <<a>> : a \in MemberIds }
             \cup { l \in { <<a, b>> : a \in MemberIds, b \in MemberIds } :
                       /\ l[1] <= l[2]
                       /\ \A i \in 1..2 :
                            [id |-> l[i], household_id |-> 1]
                                \in HouseholdMemberRows }

\* Plan content as it arrives (meal_plan_spec): one base content and, for
\* each compared field, a content that differs from the base in that field
\* alone.
BaseSpec ==
    [id |-> "s1", breakfast |-> "b1", lunch |-> "l1", dinner |-> "d1",
     reasoning |-> "r1"]

OtherSpec == [BaseSpec EXCEPT !.breakfast = "b2"]

MealPlanSpecs ==
    { BaseSpec,
      OtherSpec,
      [BaseSpec EXCEPT !.id = "None"],
      [BaseSpec EXCEPT !.lunch = "l2"],
      [BaseSpec EXCEPT !.dinner = "d2"],
      [BaseSpec EXCEPT !.reasoning = "None"] }

---------------------------------------------------------------------------
\* Helpers of the Python the code uses.

\* sorted(set(...)) of numbers.
RECURSIVE sorted(_)
sorted(S) ==
    IF S = {} THEN <<>>
    ELSE LET m == CHOOSE x \in S : \A y \in S : x <= y
         IN  <<m>> \o sorted(S \ {m})

Range(s) == { s[i] : i \in DOMAIN s }

\* The tables as one value: what a session reads and what a commit writes.
Db == [meal_plan |-> meal_plan, meal_plan_member |-> meal_plan_member]

\* MealPlan.assignments of the plan with this id.
assignments(db, plan_id) ==
    { a \in db.meal_plan_member : a.meal_plan_id = plan_id }

\* delete_meal_plan with no cascade to meal_plan_member.
delete_meal_plan_no_cascade(db, plan_id) ==
    [meal_plan |-> { p \in db.meal_plan : p.id # plan_id },
     meal_plan_member |-> db.meal_plan_member]

\* delete(MealPlan).where(MealPlan.id == meal_plan_id): the meal_plan_member
\* rows go with it (ForeignKey ondelete="CASCADE").
delete_meal_plan(db, plan_id) ==
    [meal_plan |-> { p \in db.meal_plan : p.id # plan_id },
     meal_plan_member |-> { a \in db.meal_plan_member : a.meal_plan_id # plan_id }]

\* to_dict that leaves the reference member in other_member_ids (the branch
\* taken when current_member_id is None).
to_dict_others_unfiltered(db, plan, current_member_id) ==
    LET member_ids == sorted({ a.member_id : a \in assignments(db, plan.id) })
    IN  [id |-> plan.id,
         household_id |-> plan.household_id,
         date |-> plan.applied_on,
         source_meal_plan_id |-> plan.source_meal_plan_id,
         breakfast |-> plan.breakfast,
         lunch |-> plan.lunch,
         dinner |-> plan.dinner,
         reasoning |-> plan.reasoning,
         created_at |-> plan.created_at,
         applies_to_member_ids |-> member_ids,
         other_member_ids |-> member_ids]

\* MealPlan.to_dict(include_member_ids=True, current_member_id=...), with the
\* assignments loaded from db.
to_dict(db, plan, current_member_id) ==
    LET member_ids == sorted({ a.member_id : a \in assignments(db, plan.id) })
    IN  [id |-> plan.id,
         household_id |-> plan.household_id,
         date |-> plan.applied_on,
         source_meal_plan_id |-> plan.source_meal_plan_id,
         breakfast |-> plan.breakfast,
         lunch |-> plan.lunch,
         dinner |-> plan.dinner,
         reasoning |-> plan.reasoning,
         created_at |-> plan.created_at,
         applies_to_member_ids |-> member_ids,
         other_member_ids |->
             SelectSeq(member_ids, LAMBDA mid : mid # current_member_id)]

---------------------------------------------------------------------------
\* MealPlanEntity

\* matches_incoming_plan without the comparison of reasoning.
matches_incoming_plan_ignoring_reasoning(existing_plan, meal_plan_spec) ==
    /\ existing_plan.source_meal_plan_id = meal_plan_spec.id
    /\ existing_plan.breakfast = meal_plan_spec.breakfast
    /\ existing_plan.lunch = meal_plan_spec.lunch
    /\ existing_plan.dinner = meal_plan_spec.dinner

matches_incoming_plan(existing_plan, meal_plan_spec) ==
    /\ existing_plan.source_meal_plan_id = meal_plan_spec.id
    /\ existing_plan.breakfast = meal_plan_spec.breakfast
    /\ existing_plan.lunch = meal_plan_spec.lunch
    /\ existing_plan.dinner = meal_plan_spec.dinner
    /\ existing_plan.reasoning = meal_plan_spec.reasoning

\* member_to_plan_ids is a dict in insertion order: a sequence of entries
\* [member_id, plan_ids].
dict_get(member_to_plan_ids, member_id) ==
    LET hit == SelectSeq(member_to_plan_ids, LAMBDA e : e.member_id = member_id)
    IN  IF hit = <<>> THEN <<>> ELSE hit[1].plan_ids

\* dict.setdefault(member_id, []).append(plan_id)
dict_append(member_to_plan_ids, member_id, plan_id) ==
    IF \E i \in DOMAIN member_to_plan_ids :
            member_to_plan_ids[i].member_id = member_id
    THEN [i \in DOMAIN member_to_plan_ids |->
            IF member_to_plan_ids[i].member_id = member_id
            THEN [member_to_plan_ids[i] EXCEPT
                    !.plan_ids = Append(@, plan_id)]
            ELSE member_to_plan_ids[i]]
    ELSE Append(member_to_plan_ids,
                [member_id |-> member_id, plan_ids |-> <<plan_id>>])

\* pick_reusable_plan_id that finds nothing to reuse.
pick_reusable_plan_id_never(requested_member_id, member_to_plan_ids) ==
    NoPlan

\* pick_reusable_plan_id without its loop over the other members' plans
\* (lines 47-49).
pick_reusable_plan_id_requested_only(requested_member_id, member_to_plan_ids) ==
    LET requested_plan_ids == dict_get(member_to_plan_ids, requested_member_id)
    IN  IF requested_plan_ids # <<>> THEN requested_plan_ids[1] ELSE NoPlan

\* pick_reusable_plan_id without the preference for the requested member's
\* own plan (lines 43-45): the plan of the first entry is taken.
pick_reusable_plan_id_first_entry(requested_member_id, member_to_plan_ids) ==
    IF member_to_plan_ids # <<>>
    THEN member_to_plan_ids[1].plan_ids[1]
    ELSE NoPlan

pick_reusable_plan_id(requested_member_id, member_to_plan_ids) ==
    LET requested_plan_ids == dict_get(member_to_plan_ids, requested_member_id)
    IN  IF requested_plan_ids # <<>> THEN requested_plan_ids[1]
        ELSE IF member_to_plan_ids # <<>>
             THEN member_to_plan_ids[1].plan_ids[1]
             ELSE NoPlan

\* get_members_in_same_household without the check that the members found
\* share one household (lines 69-73).
get_members_in_same_household_any_household(members_table, member_ids) ==
    LET members == { m \in members_table : m.id \in Range(member_ids) }
        found_ids == { m.id : m \in members }
    IN  IF Cardinality(members) # Cardinality(Range(member_ids))
        THEN [status |-> "NotFoundError",
              missing |-> sorted(Range(member_ids) \ found_ids)]
        ELSE [status |-> "ok", members |-> members]

\* get_members_in_same_household with its two checks in the other order: the
\* households of the members found are compared before the ids are counted.
get_members_in_same_household_household_first(members_table, member_ids) ==
    LET members == { m \in members_table : m.id \in Range(member_ids) }
        found_ids == { m.id : m \in members }
        household_ids == { m.household_id : m \in members }
    IN  IF Cardinality(household_ids) > 1
        THEN [status |-> "ConflictError", detail |-> "household"]
        ELSE IF Cardinality(members) # Cardinality(Range(member_ids))
        THEN [status |-> "NotFoundError",
              missing |-> sorted(Range(member_ids) \ found_ids)]
        ELSE [status |-> "ok", members |-> members]

\* The lookup of _get_members_in_same_household: the error it raises, or
\* "ok" and the rows found.
get_members_in_same_household(members_table, member_ids) ==
    LET members == { m \in members_table : m.id \in Range(member_ids) }
        found_ids == { m.id : m \in members }
        household_ids == { m.household_id : m \in members }
    IN  IF Cardinality(members) # Cardinality(Range(member_ids))
        THEN [status |-> "NotFoundError",
              missing |-> sorted(Range(member_ids) \ found_ids)]
        ELSE IF Cardinality(household_ids) # 1
        THEN [status |-> "ConflictError", detail |-> "household"]
        ELSE [status |-> "ok", members |-> members]

\* order_by(MealPlan.created_at.desc(), MealPlan.id.desc()) over the joined
\* rows [member_id, plan].  Rows of one plan tie; the database may return
\* them in any order, and nothing read from the list depends on it (they
\* carry the same plan), so they are listed by member id.
row_first(r, s) ==
    \/ r.plan.created_at > s.plan.created_at
    \/ /\ r.plan.created_at = s.plan.created_at
       /\ \/ r.plan.id > s.plan.id
          \/ r.plan.id = s.plan.id /\ r.member_id <= s.member_id

RECURSIVE order_by(_)
order_by(rows) ==
    IF rows = {} THEN <<>>
    ELSE LET r == CHOOSE x \in rows : \A y \in rows : row_first(x, y)
         IN  <<r>> \o order_by(rows \ {r})

\* existing_rows without the filter MealPlan.applied_on == target_date.
existing_rows_any_date(db, household_id, target_date, target_member_ids) ==
    order_by({ [member_id |-> j[1].member_id, plan |-> j[2]] :
                 j \in { x \in db.meal_plan_member \X db.meal_plan :
                           /\ x[2].id = x[1].meal_plan_id
                           /\ x[2].household_id = household_id
                           /\ x[1].member_id \in Range(target_member_ids) } })

\* existing_rows without the filter MealPlanMember.member_id.in_(...): every
\* assignment of the household for the date is a candidate.
existing_rows_whole_household(db, household_id, target_date, target_member_ids) ==
    order_by({ [member_id |-> j[1].member_id, plan |-> j[2]] :
                 j \in { x \in db.meal_plan_member \X db.meal_plan :
                           /\ x[2].id = x[1].meal_plan_id
                           /\ x[2].household_id = household_id
                           /\ x[2].applied_on = target_date } })

\* The select of store_for_members (lines 104-114).
existing_rows(db, household_id, target_date, target_member_ids) ==
    order_by({ [member_id |-> j[1].member_id, plan |-> j[2]] :
                 j \in { x \in db.meal_plan_member \X db.meal_plan :
                           /\ x[2].id = x[1].meal_plan_id
                           /\ x[2].household_id = household_id
                           /\ x[2].applied_on = target_date
                           /\ x[1].member_id \in Range(target_member_ids) } })

\* The loop over existing_rows (lines 116-133), from row i on.
RECURSIVE classify(_, _, _, _)
classify(rows, i, meal_plan_spec, acc) ==
    IF i > Len(rows) THEN acc
    ELSE LET member_id == rows[i].member_id
             existing_plan == rows[i].plan
             is_match == matches_incoming_plan(existing_plan, meal_plan_spec)
         IN  classify(rows, i + 1, meal_plan_spec,
               [matching_member_plan_ids |->
                    IF is_match
                    THEN dict_append(acc.matching_member_plan_ids,
                                     member_id, existing_plan.id)
                    ELSE acc.matching_member_plan_ids,
                conflicting_member_ids |->
                    IF is_match THEN acc.conflicting_member_ids
                    ELSE acc.conflicting_member_ids \cup {member_id},
                members_with_existing_assignments |->
                    acc.members_with_existing_assignments \cup {member_id}])

\* new_meal_plan that files the plan under the day of the call instead of
\* the target date.
new_meal_plan_for_today(new_id, household_id, target_date, meal_plan_spec, now_day) ==
    [id |-> new_id,
     household_id |-> household_id,
     applied_on |-> now_day,
     source_meal_plan_id |-> meal_plan_spec.id,
     breakfast |-> meal_plan_spec.breakfast,
     lunch |-> meal_plan_spec.lunch,
     dinner |-> meal_plan_spec.dinner,
     reasoning |-> meal_plan_spec.reasoning,
     created_at |-> now_day]

\* MealPlan(id=str(uuid4()), ...): created_at defaults to the time of the
\* insert.  source_created_at is stored and never read again; it is left out.
new_meal_plan(new_id, household_id, target_date, meal_plan_spec, now_day) ==
    [id |-> new_id,
     household_id |-> household_id,
     applied_on |-> target_date,
     source_meal_plan_id |-> meal_plan_spec.id,
     breakfast |-> meal_plan_spec.breakfast,
     lunch |-> meal_plan_spec.lunch,
     dinner |-> meal_plan_spec.dinner,
     reasoning |-> meal_plan_spec.reasoning,
     created_at |-> now_day]

\* The rows db.add(MealPlanMember(...)) adds for these members.
new_assignments(plan_id, member_ids) ==
    { [meal_plan_id |-> plan_id, member_id |-> m] : m \in Range(member_ids) }

\* store_writes with the reusable plan never looked for: every call that
\* passes the conflict check inserts a new plan for all its target members.
store_writes_always_new(db, requested_member_id, target_member_ids, household_id, target_date, meal_plan_spec, acc, now_day, new_id) ==
    [db |-> [meal_plan |->
                 db.meal_plan \cup
                   { new_meal_plan(new_id, household_id, target_date,
                                   meal_plan_spec, now_day) },
             meal_plan_member |->
                 db.meal_plan_member \cup
                   new_assignments(new_id, target_member_ids)],
     plan_id |-> new_id]

\* store_writes whose reuse branch links the requested member alone instead
\* of every member without an assignment.
store_writes_requested_only(db, requested_member_id, target_member_ids, household_id, target_date, meal_plan_spec, acc, now_day, new_id) ==
    LET reusable_plan_id ==
            pick_reusable_plan_id(requested_member_id,
                                  acc.matching_member_plan_ids)
        members_without_assignments ==
            sorted({requested_member_id}
                       \ acc.members_with_existing_assignments)
    IN  IF reusable_plan_id # NoPlan
        THEN [db |-> [db EXCEPT !.meal_plan_member =
                         @ \cup new_assignments(reusable_plan_id,
                                                members_without_assignments)],
              plan_id |-> reusable_plan_id]
        ELSE [db |-> [meal_plan |->
                          db.meal_plan \cup
                            { new_meal_plan(new_id, household_id, target_date,
                                            meal_plan_spec, now_day) },
                      meal_plan_member |->
                          db.meal_plan_member \cup
                            new_assignments(new_id, target_member_ids)],
              plan_id |-> new_id]

\* store_writes whose reuse branch saves the reused plan again, so that its
\* created_at becomes the day of the call.
store_writes_updating_plan(db, requested_member_id, target_member_ids, household_id, target_date, meal_plan_spec, acc, now_day, new_id) ==
    LET reusable_plan_id ==
            pick_reusable_plan_id(requested_member_id,
                                  acc.matching_member_plan_ids)
        members_without_assignments ==
            sorted(Range(target_member_ids)
                       \ acc.members_with_existing_assignments)
    IN  IF reusable_plan_id # NoPlan
        THEN [db |-> [meal_plan |->
                          { IF p.id = reusable_plan_id
                            THEN [p EXCEPT !.created_at = now_day]
                            ELSE p : p \in db.meal_plan },
                      meal_plan_member |->
                          db.meal_plan_member \cup
                            new_assignments(reusable_plan_id,
                                            members_without_assignments)],
              plan_id |-> reusable_plan_id]
        ELSE [db |-> [meal_plan |->
                          db.meal_plan \cup
                            { new_meal_plan(new_id, household_id, target_date,
                                            meal_plan_spec, now_day) },
                      meal_plan_member |->
                          db.meal_plan_member \cup
                            new_assignments(new_id, target_member_ids)],
              plan_id |-> new_id]

\* store_writes that links every target member to the reusable plan, the
\* ones that already hold a plan for the date included.
store_writes_linking_all_targets(db, requested_member_id, target_member_ids, household_id, target_date, meal_plan_spec, acc, now_day, new_id) ==
    LET reusable_plan_id ==
            pick_reusable_plan_id(requested_member_id,
                                  acc.matching_member_plan_ids)
    IN  IF reusable_plan_id # NoPlan
        THEN [db |-> [db EXCEPT !.meal_plan_member =
                         @ \cup new_assignments(reusable_plan_id,
                                                target_member_ids)],
              plan_id |-> reusable_plan_id]
        ELSE [db |-> [meal_plan |->
                          db.meal_plan \cup
                            { new_meal_plan(new_id, household_id, target_date,
                                            meal_plan_spec, now_day) },
                      meal_plan_member |->
                          db.meal_plan_member \cup
                            new_assignments(new_id, target_member_ids)],
              plan_id |-> new_id]

\* The writes of store_for_members once no member conflicts (lines 149-193):
\* the tables after the commit and the plan id used.
store_writes(db, requested_member_id, target_member_ids, household_id, target_date, meal_plan_spec, acc, now_day, new_id) ==
    LET reusable_plan_id ==
            pick_reusable_plan_id(requested_member_id,
                                  acc.matching_member_plan_ids)
        members_without_assignments ==
            sorted(Range(target_member_ids)
                       \ acc.members_with_existing_assignments)
    IN  IF reusable_plan_id # NoPlan
        THEN [db |-> [db EXCEPT !.meal_plan_member =
                         @ \cup new_assignments(reusable_plan_id,
                                                members_without_assignments)],
              plan_id |-> reusable_plan_id]
        ELSE [db |-> [meal_plan |->
                          db.meal_plan \cup
                            { new_meal_plan(new_id, household_id, target_date,
                                            meal_plan_spec, now_day) },
                      meal_plan_member |->
                          db.meal_plan_member \cup
                            new_assignments(new_id, target_member_ids)],
              plan_id |-> new_id]

\* store_for_members whose date check also turns today away (<= for <).
store_for_members_rejecting_today(db, members_table, now_day, requested_member_id, target_date, meal_plan_spec, additional_member_ids, new_id) ==
    IF target_date <= now_day
    THEN [db |-> db, ret |-> [status |-> "DataError"]]
    ELSE
    LET target_member_ids ==
            sorted({requested_member_id} \cup Range(additional_member_ids))
        lookup == get_members_in_same_household(members_table,
                                                target_member_ids)
    IN  IF lookup.status # "ok"
        THEN [db |-> db, ret |-> lookup]
        ELSE
        LET household_id == (CHOOSE m \in lookup.members : TRUE).household_id
            rows == existing_rows(db, household_id, target_date,
                                  target_member_ids)
            acc == classify(rows, 1, meal_plan_spec,
                     [matching_member_plan_ids |-> <<>>,
                      conflicting_member_ids |-> {},
                      members_with_existing_assignments |-> {}])
            conflicting_member_ids == sorted(acc.conflicting_member_ids)
        IN  IF conflicting_member_ids # <<>>
            THEN [db |-> db,
                  ret |-> [status |-> "ConflictError", detail |-> "content",
                           date |-> target_date,
                           members |-> conflicting_member_ids]]
            ELSE
            LET w == store_writes(db, requested_member_id, target_member_ids,
                                  household_id, target_date, meal_plan_spec,
                                  acc, now_day, new_id)
                stored_plan == CHOOSE p \in w.db.meal_plan : p.id = w.plan_id
            IN  [db |-> w.db,
                 ret |-> [status |-> "ok",
                          plan |-> to_dict(w.db, stored_plan,
                                           requested_member_id)]]

\* store_for_members that resolves the requested member alone: the additional
\* members are neither looked up nor compared by household.
store_for_members_requested_lookup(db, members_table, now_day, requested_member_id, target_date, meal_plan_spec, additional_member_ids, new_id) ==
    IF target_date < now_day
    THEN [db |-> db, ret |-> [status |-> "DataError"]]
    ELSE
    LET target_member_ids ==
            sorted({requested_member_id} \cup Range(additional_member_ids))
        lookup == get_members_in_same_household(members_table,
                                                <<requested_member_id>>)
    IN  IF lookup.status # "ok"
        THEN [db |-> db, ret |-> lookup]
        ELSE
        LET household_id == (CHOOSE m \in lookup.members : TRUE).household_id
            rows == existing_rows(db, household_id, target_date,
                                  target_member_ids)
            acc == classify(rows, 1, meal_plan_spec,
                     [matching_member_plan_ids |-> <<>>,
                      conflicting_member_ids |-> {},
                      members_with_existing_assignments |-> {}])
            conflicting_member_ids == sorted(acc.conflicting_member_ids)
        IN  IF conflicting_member_ids # <<>>
            THEN [db |-> db,
                  ret |-> [status |-> "ConflictError", detail |-> "content",
                           date |-> target_date,
                           members |-> conflicting_member_ids]]
            ELSE
            LET w == store_writes(db, requested_member_id, target_member_ids,
                                  household_id, target_date, meal_plan_spec,
                                  acc, now_day, new_id)
                stored_plan == CHOOSE p \in w.db.meal_plan : p.id = w.plan_id
            IN  [db |-> w.db,
                 ret |-> [status |-> "ok",
                          plan |-> to_dict(w.db, stored_plan,
                                           requested_member_id)]]

\* store_for_members run as one serialized call on db at day now_day; new_id
\* is the uuid4 of the MealPlan row it may create.  Gives the tables after
\* the call and what the call returns or raises.
store_for_members(db, members_table, now_day, requested_member_id, target_date, meal_plan_spec, additional_member_ids, new_id) ==
    IF target_date < now_day
    THEN [db |-> db, ret |-> [status |-> "DataError"]]
    ELSE
    LET target_member_ids ==
            sorted({requested_member_id} \cup Range(additional_member_ids))
        lookup == get_members_in_same_household(members_table,
                                                target_member_ids)
    IN  IF lookup.status # "ok"
        THEN [db |-> db, ret |-> lookup]
        ELSE
        LET household_id == (CHOOSE m \in lookup.members : TRUE).household_id
            rows == existing_rows(db, household_id, target_date,
                                  target_member_ids)
            acc == classify(rows, 1, meal_plan_spec,
                     [matching_member_plan_ids |-> <<>>,
                      conflicting_member_ids |-> {},
                      members_with_existing_assignments |-> {}])
            conflicting_member_ids == sorted(acc.conflicting_member_ids)
        IN  IF conflicting_member_ids # <<>>
            THEN [db |-> db,
                  ret |-> [status |-> "ConflictError", detail |-> "content",
                           date |-> target_date,
                           members |-> conflicting_member_ids]]
            ELSE
            LET w == store_writes(db, requested_member_id, target_member_ids,
                                  household_id, target_date, meal_plan_spec,
                                  acc, now_day, new_id)
                stored_plan == CHOOSE p \in w.db.meal_plan : p.id = w.plan_id
            IN  [db |-> w.db,
                 ret |-> [status |-> "ok",
                          plan |-> to_dict(w.db, stored_plan,
                                           requested_member_id)]]

\* get_for_member_and_date without the filter on the date.
get_for_member_and_date_any_date(db, member_id, target_date) ==
    LET found == { p \in db.meal_plan :
                     \E a \in db.meal_plan_member :
                        a.meal_plan_id = p.id /\ a.member_id = member_id }
        first == { p \in found : \A q \in found : p.created_at >= q.created_at }
    IN  IF found = {}
        THEN { [status |-> "NotFoundError"] }
        ELSE { [status |-> "ok", plan |-> to_dict(db, p, member_id)] :
                 p \in first }

\* get_for_member_and_date ordered by created_at ascending.
get_for_member_and_date_oldest_first(db, member_id, target_date) ==
    LET found == { p \in db.meal_plan :
                     /\ p.applied_on = target_date
                     /\ \E a \in db.meal_plan_member :
                           a.meal_plan_id = p.id /\ a.member_id = member_id }
        first == { p \in found : \A q \in found : p.created_at <= q.created_at }
    IN  IF found = {}
        THEN { [status |-> "NotFoundError"] }
        ELSE { [status |-> "ok", plan |-> to_dict(db, p, member_id)] :
                 p \in first }

\* get_for_member_and_date without the filter on the member.
get_for_member_and_date_any_member(db, member_id, target_date) ==
    LET found == { p \in db.meal_plan :
                     /\ p.applied_on = target_date
                     /\ \E a \in db.meal_plan_member : a.meal_plan_id = p.id }
        first == { p \in found : \A q \in found : p.created_at >= q.created_at }
    IN  IF found = {}
        THEN { [status |-> "NotFoundError"] }
        ELSE { [status |-> "ok", plan |-> to_dict(db, p, member_id)] :
                 p \in first }

\* The possible outcomes of get_for_member_and_date: the query orders by
\* created_at alone, so among rows that tie on it the first is any of them.
get_for_member_and_date(db, member_id, target_date) ==
    LET found == { p \in db.meal_plan :
                     /\ p.applied_on = target_date
                     /\ \E a \in db.meal_plan_member :
                           a.meal_plan_id = p.id /\ a.member_id = member_id }
        first == { p \in found : \A q \in found : p.created_at >= q.created_at }
    IN  IF found = {}
        THEN { [status |-> "NotFoundError"] }
        ELSE { [status |-> "ok", plan |-> to_dict(db, p, member_id)] :
                 p \in first }

\* revoke_for_member whose delete lacks the condition on meal_plan_id: every
\* assignment of the member goes.
revoke_for_member_all_plans(db, meal_plan_id, member_id) ==
    LET db1 == [db EXCEPT !.meal_plan_member =
                   { a \in @ : a.member_id # member_id }]
        remaining_assignment == assignments(db1, meal_plan_id)
    IN  IF remaining_assignment = {}
        THEN [db |-> delete_meal_plan(db1, meal_plan_id),
              meal_plan_deleted |-> TRUE]
        ELSE [db |-> db1, meal_plan_deleted |-> FALSE]

\* revoke_for_member without the check for remaining assignments: the plan
\* row always stays.
revoke_for_member_keep_plan(db, meal_plan_id, member_id) ==
    [db |-> [db EXCEPT !.meal_plan_member =
                { a \in @ : ~ (/\ a.meal_plan_id = meal_plan_id
                               /\ a.member_id = member_id) }],
     meal_plan_deleted |-> FALSE]

\* The per-member branch of revoke (lines 276-292): delete the member's
\* assignment to the plan, then the plan too when no assignment of it remains.
revoke_for_member(db, meal_plan_id, member_id) ==
    LET db1 == [db EXCEPT !.meal_plan_member =
                   { a \in @ : ~ (/\ a.meal_plan_id = meal_plan_id
                                  /\ a.member_id = member_id) }]
        remaining_assignment == assignments(db1, meal_plan_id)
    IN  IF remaining_assignment = {}
        THEN [db |-> delete_meal_plan(db1, meal_plan_id),
              meal_plan_deleted |-> TRUE]
        ELSE [db |-> db1, meal_plan_deleted |-> FALSE]

\* revoke that asks for the member's assignment only when it revokes for that
\* member alone: with revoke_for_all_members any member of the plan's
\* household may delete the plan.
revoke_for_all_unassigned(db, members_table, member_id, meal_plan_id, revoke_for_all_members) ==
    LET member == { m \in members_table : m.id = member_id }
        plan == { p \in db.meal_plan : p.id = meal_plan_id }
        assigned_member_ids ==
            { a.member_id : a \in assignments(db, meal_plan_id) }
        fail(detail) ==
            [db |-> db, ret |-> [status |-> "NotFoundError", detail |-> detail]]
        done(out) ==
            [db |-> out.db,
             ret |-> [status |-> "ok",
                      meal_plan_id |-> meal_plan_id,
                      revoked_for_member_id |-> member_id,
                      revoked_for_all_members |-> revoke_for_all_members,
                      meal_plan_deleted |-> out.meal_plan_deleted]]
    IN  IF member = {} THEN fail("member")
        ELSE IF plan = {} THEN fail("plan")
        ELSE IF (CHOOSE p \in plan : TRUE).household_id
                    # (CHOOSE m \in member : TRUE).household_id
        THEN fail("household")
        ELSE IF /\ ~ revoke_for_all_members
                /\ member_id \notin assigned_member_ids
        THEN fail("assignment")
        ELSE IF revoke_for_all_members
        THEN done([db |-> delete_meal_plan(db, meal_plan_id),
                   meal_plan_deleted |-> TRUE])
        ELSE done(revoke_for_member(db, meal_plan_id, member_id))

\* revoke run as one serialized call on db.
revoke(db, members_table, member_id, meal_plan_id, revoke_for_all_members) ==
    LET member == { m \in members_table : m.id = member_id }
        plan == { p \in db.meal_plan : p.id = meal_plan_id }
        assigned_member_ids ==
            { a.member_id : a \in assignments(db, meal_plan_id) }
        fail(detail) ==
            [db |-> db, ret |-> [status |-> "NotFoundError", detail |-> detail]]
        done(out) ==
            [db |-> out.db,
             ret |-> [status |-> "ok",
                      meal_plan_id |-> meal_plan_id,
                      revoked_for_member_id |-> member_id,
                      revoked_for_all_members |-> revoke_for_all_members,
                      meal_plan_deleted |-> out.meal_plan_deleted]]
    IN  IF member = {} THEN fail("member")
        ELSE IF plan = {} THEN fail("plan")
        ELSE IF (CHOOSE p \in plan : TRUE).household_id
                    # (CHOOSE m \in member : TRUE).household_id
        THEN fail("household")
        ELSE IF member_id \notin assigned_member_ids THEN fail("assignment")
        ELSE IF revoke_for_all_members
        THEN done([db |-> delete_meal_plan(db, meal_plan_id),
                   meal_plan_deleted |-> TRUE])
        ELSE done(revoke_for_member(db, meal_plan_id, member_id))

---------------------------------------------------------------------------
\* The state machine: calls run one at a time, each in its own
\* transaction.  The model remembers the call that has just returned (last)
\* and the tables it found (before) until the response is delivered; the
\* caller may follow that call directly by the same store_for_members call
\* again or by reading the plan back, and then earlier keeps the first call.

Idle == [op |-> "idle"]

Sessions == 1..MaxSessions

Init ==
    /\ household_member = HouseholdMemberRows
    /\ meal_plan = {}
    /\ meal_plan_member = {}
    /\ today = 0
    /\ last = Idle
    /\ before = [meal_plan |-> {}, meal_plan_member |-> {}]
    /\ earlier = Idle
    /\ session = [p \in Sessions |-> Idle]
    /\ household = {}
    /\ creating = [p \in Sessions |-> Idle]

\* What a call leaves in the history variables.
Called(record) ==
    /\ last' = record
    /\ before' = Db
    /\ earlier' = IF last = Idle THEN Idle
                  ELSE [op |-> "call", last |-> last, before |-> before]

\* A call of store_for_members: any call when the store is idle, or the
\* store_for_members call that has just succeeded once more.  The uuid4 of a new row is any id no row
\* has; NoPlan stands for it when every id of the model is taken, and the
\* call is then left out if it would create a row.
StoreForMembers(requested_member_id, target_date, meal_plan_spec, additional_member_ids) ==
    /\ \/ last = Idle
       \/ /\ last.op = "store_for_members"
          /\ last.ret.status = "ok"
          /\ last.requested_member_id = requested_member_id
          /\ last.target_date = target_date
          /\ last.meal_plan_spec = meal_plan_spec
          /\ last.additional_member_ids = additional_member_ids
    /\ \E new_id \in (PlanIds \ { p.id : p \in meal_plan }) \cup {NoPlan} :
        LET out == store_for_members(Db, household_member, today,
                       requested_member_id, target_date, meal_plan_spec,
                       additional_member_ids, new_id)
        IN  /\ \A p \in out.db.meal_plan : p.id # NoPlan
            /\ meal_plan' = out.db.meal_plan
            /\ meal_plan_member' = out.db.meal_plan_member
            /\ Called([op |-> "store_for_members",
                       today |-> today,
                       requested_member_id |-> requested_member_id,
                       target_date |-> target_date,
                       meal_plan_spec |-> meal_plan_spec,
                       additional_member_ids |-> additional_member_ids,
                       ret |-> out.ret])
            /\ UNCHANGED <<household, creating, household_member, today,
                           session>>

\* A call of get_for_member_and_date: any call when the store is idle, or
\* the member of the last successful call reading back the date of the plan
\* that call stored or revoked.
GetForMemberAndDate(member_id, target_date) ==
    /\ \/ last = Idle
       \/ /\ last.op = "store_for_members"
          /\ last.ret.status = "ok"
          /\ last.requested_member_id = member_id
          /\ last.target_date = target_date
       \/ /\ last.op = "revoke"
          /\ last.ret.status = "ok"
          /\ last.member_id = member_id
          /\ \E p \in before.meal_plan :
                p.id = last.meal_plan_id /\ p.applied_on = target_date
    /\ \E ret \in get_for_member_and_date(Db, member_id, target_date) :
          Called([op |-> "get_for_member_and_date",
                  today |-> today,
                  member_id |-> member_id,
                  target_date |-> target_date,
                  ret |-> ret])
    /\ UNCHANGED <<household, creating, household_member, meal_plan,
                   meal_plan_member, today,
                   session>>

\* A call of revoke.
Revoke(member_id, meal_plan_id, revoke_for_all_members) ==
    /\ last = Idle
    /\ LET out == revoke(Db, household_member, member_id, meal_plan_id,
                         revoke_for_all_members)
       IN  /\ meal_plan' = out.db.meal_plan
           /\ meal_plan_member' = out.db.meal_plan_member
           /\ Called([op |-> "revoke",
                      today |-> today,
                      member_id |-> member_id,
                      meal_plan_id |-> meal_plan_id,
                      revoke_for_all_members |-> revoke_for_all_members,
                      ret |-> out.ret])
    /\ UNCHANGED <<household, creating, household_member, today, session>>

\* The response of the last call is delivered: the store is idle again.
Return ==
    /\ last # Idle
    /\ last' = Idle
    /\ before' = Db
    /\ earlier' = Idle
    /\ UNCHANGED <<household, creating, household_member, meal_plan,
                   meal_plan_member, today,
                   session>>

\* Midnight: date.today() moves on.
Tick ==
    /\ last = Idle
    /\ today < MaxDay
    /\ today' = today + 1
    /\ before' = Db
    /\ UNCHANGED <<household, creating, household_member, meal_plan,
                   meal_plan_member, last,
                   earlier, session>>

\* Every member id with every list of additional members, on the base
\* content and one content that differs from it.
Next ==
    \/ \E m \in MemberIds, d \in Days, s \in {BaseSpec, OtherSpec},
          a \in AdditionalMemberIds : StoreForMembers(m, d, s, a)
    \/ \E m \in MemberIds, d \in Days : GetForMemberAndDate(m, d)
    \/ \E m \in MemberIds, p \in PlanIds, f \in BOOLEAN : Revoke(m, p, f)
    \/ Return
    \/ Tick

Spec == Init /\ [][Next]_vars

\* Members 1 and 2 of household 1 alone, on every content of MealPlanSpecs:
\* member 1 stores for itself or for both, either member reads and revokes.
NextContent ==
    \/ \E d \in Days, s \in MealPlanSpecs, a \in { <<>>, <<2>> } :
          StoreForMembers(1, d, s, a)
    \/ \E m \in {1, 2}, d \in Days : GetForMemberAndDate(m, d)
    \/ \E m \in {1, 2}, p \in PlanIds, f \in BOOLEAN : Revoke(m, p, f)
    \/ Return
    \/ Tick

SpecContent == Init /\ [][NextContent]_vars

\* The member lookup on its own: member 1 of household 1, member 4 of
\* household 2 and the ids 5 and 6 of no member, in lists of up to three
\* additional ids in every order.
LookupMemberIds == {1, 4, 5, 6}

LookupLists ==
    { <<>> } \cup { <<a>> : a \in LookupMemberIds }
             \cup { <<a, b>> : a \in LookupMemberIds, b \in LookupMemberIds }
             \cup { <<a, b, c>> : a \in LookupMemberIds, b \in LookupMemberIds,
                                  c \in LookupMemberIds }

NextLookup ==
    \/ \E m \in {1, 4, 6}, d \in Days, s \in {BaseSpec, OtherSpec},
          a \in LookupLists : StoreForMembers(m, d, s, a)
    \/ Return
    \/ Tick

SpecLookup == Init /\ [][NextLookup]_vars

\* The member whose revoke has just succeeded stores a plan for the date of
\* the plan it revoked, for itself alone.
StoreAfterRevoke(meal_plan_spec) ==
    /\ last # Idle
    /\ last.op = "revoke"
    /\ last.ret.status = "ok"
    /\ \E revoked \in before.meal_plan :
        /\ revoked.id = last.meal_plan_id
        /\ \E new_id \in (PlanIds \ { p.id : p \in meal_plan }) \cup {NoPlan} :
            LET out == store_for_members(Db, household_member, today,
                           last.member_id, revoked.applied_on, meal_plan_spec,
                           <<>>, new_id)
            IN  /\ \A p \in out.db.meal_plan : p.id # NoPlan
                /\ meal_plan' = out.db.meal_plan
                /\ meal_plan_member' = out.db.meal_plan_member
                /\ Called([op |-> "store_for_members",
                           today |-> today,
                           requested_member_id |-> last.member_id,
                           target_date |-> revoked.applied_on,
                           meal_plan_spec |-> meal_plan_spec,
                           additional_member_ids |-> <<>>,
                           ret |-> out.ret])
                /\ UNCHANGED <<household, creating, household_member, today,
                               session>>

\* Members 1 and 2 of household 1 store for themselves or for both and
\* revoke; a successful revoke may be followed by the member's new store.
NextRestore ==
    \/ \E m \in {1, 2}, d \in Days, s \in {BaseSpec, OtherSpec} :
          \E a \in { <<>>, <<3 - m>> } : StoreForMembers(m, d, s, a)
    \/ \E m \in {1, 2}, p \in PlanIds, f \in BOOLEAN : Revoke(m, p, f)
    \/ \E s \in {BaseSpec, OtherSpec} : StoreAfterRevoke(s)
    \/ Return
    \/ Tick

SpecRestore == Init /\ [][NextRestore]_vars

---------------------------------------------------------------------------
\* store_for_members as the transaction it is: the select of the candidate
\* rows (line 104), the flush of a new plan (181), the commit (167, 193) and
\* the select of the stored plan (195) are separate round trips to the
\* database, and the transactions of other requests may commit between them.

\* target_member_ids taken as the list [requested_member_id,
\* *additional_member_ids] itself, with no set() and no sorted().
target_ids_with_repeats(requested_member_id, additional_member_ids) ==
    <<requested_member_id>> \o additional_member_ids

\* target_member_ids = sorted(set([requested_member_id,
\* *additional_member_ids])) (line 93).
target_ids(requested_member_id, additional_member_ids) ==
    sorted({requested_member_id} \cup Range(additional_member_ids))

\* store_for_members up to its decision (lines 85-155): the error it raises,
\* or the plan id to reuse (NoPlan for none) and the members to link.
store_select(db, members_table, now_day, requested_member_id, target_date, meal_plan_spec, additional_member_ids) ==
    IF target_date < now_day
    THEN [status |-> "DataError"]
    ELSE
    LET target_member_ids ==
            target_ids(requested_member_id, additional_member_ids)
        lookup == get_members_in_same_household(members_table,
                                                target_member_ids)
    IN  IF lookup.status # "ok"
        THEN lookup
        ELSE
        LET household_id == (CHOOSE m \in lookup.members : TRUE).household_id
            rows == existing_rows(db, household_id, target_date,
                                  target_member_ids)
            acc == classify(rows, 1, meal_plan_spec,
                     [matching_member_plan_ids |-> <<>>,
                      conflicting_member_ids |-> {},
                      members_with_existing_assignments |-> {}])
            conflicting_member_ids == sorted(acc.conflicting_member_ids)
        IN  IF conflicting_member_ids # <<>>
            THEN [status |-> "ConflictError", detail |-> "content",
                  date |-> target_date,
                  members |-> conflicting_member_ids]
            ELSE [status |-> "ok",
                  household_id |-> household_id,
                  target_member_ids |-> target_member_ids,
                  reusable_plan_id |->
                      pick_reusable_plan_id(requested_member_id,
                                            acc.matching_member_plan_ids),
                  members_with_existing_assignments |->
                      acc.members_with_existing_assignments,
                  members_without_assignments |->
                      sorted(Range(target_member_ids)
                               \ acc.members_with_existing_assignments)]

\* The MealPlanMember rows the call passes to db.add, in the order of the
\* calls: one per entry of members_without_assignments on the reuse branch
\* (lines 158-165), one per entry of target_member_ids on the branch that
\* creates the plan plan_id (lines 184-191).
added_assignments(selected, plan_id) ==
    LET member_ids == IF selected.reusable_plan_id # NoPlan
                      THEN selected.members_without_assignments
                      ELSE selected.target_member_ids
        used_plan_id == IF selected.reusable_plan_id # NoPlan
                        THEN selected.reusable_plan_id
                        ELSE plan_id
    IN  [i \in DOMAIN member_ids |->
            [meal_plan_id |-> used_plan_id, member_id |-> member_ids[i]]]

\* flush that commits: the inserted plan is visible to every session at once.
flush_committing(db, plan) ==
    [db EXCEPT !.meal_plan = @ \cup {plan}]

\* db.add(plan); await db.flush() (lines 180-181): the INSERT is sent inside
\* the transaction, and the committed tables, which are what other sessions
\* read, stay as they are.
flush(db, plan) ==
    db

\* commit under a further constraint, one plan for each member and date.
commit_one_plan_per_member_and_date(db, pending) ==
    LET plans == db.meal_plan \cup pending.meal_plan
        applied_on(plan_id) == (CHOOSE p \in plans : p.id = plan_id).applied_on
    IN  IF \E a \in pending.meal_plan_member :
              \A p \in plans : p.id # a.meal_plan_id
        THEN [db |-> db, status |-> "IntegrityError"]
        ELSE IF pending.meal_plan_member \cap db.meal_plan_member # {}
        THEN [db |-> db, status |-> "IntegrityError"]
        ELSE IF \E a \in pending.meal_plan_member :
                   \E b \in db.meal_plan_member :
                      /\ b.member_id = a.member_id
                      /\ applied_on(b.meal_plan_id) = applied_on(a.meal_plan_id)
        THEN [db |-> db, status |-> "IntegrityError"]
        ELSE [db |-> [meal_plan |-> plans,
                      meal_plan_member |->
                          db.meal_plan_member \cup pending.meal_plan_member],
              status |-> "ok"]

\* await db.commit() (lines 167, 193): the rows the session added become
\* visible together, unless one of them breaks the foreign key of
\* meal_plan_member.meal_plan_id or uq_meal_plan_member_plan_member; the
\* transaction is then rolled back and the error propagates.
commit(db, pending) ==
    LET plans == db.meal_plan \cup pending.meal_plan
    IN  IF \E a \in pending.meal_plan_member :
              \A p \in plans : p.id # a.meal_plan_id
        THEN [db |-> db, status |-> "IntegrityError"]
        ELSE IF pending.meal_plan_member \cap db.meal_plan_member # {}
        THEN [db |-> db, status |-> "IntegrityError"]
        ELSE [db |-> [meal_plan |-> plans,
                      meal_plan_member |->
                          db.meal_plan_member \cup pending.meal_plan_member],
              status |-> "ok"]

\* The session is closed with its transaction open: what it added is
\* discarded.
rollback(db, pending) ==
    db

\* The select of the stored plan and its to_dict (lines 195-204);
\* scalar_one() raises when the row is gone.
stored_plan(db, plan_id, requested_member_id) ==
    IF \A p \in db.meal_plan : p.id # plan_id
    THEN [status |-> "NoResultFound"]
    ELSE [status |-> "ok",
          plan |-> to_dict(db, CHOOSE p \in db.meal_plan : p.id = plan_id,
                           requested_member_id)]

\* The sessions that are between their select and the end of their
\* transaction.
InFlight == { p \in Sessions : session[p] # Idle /\ session[p].pc \in {"selected", "flushed"} }

\* The plan ids a session in progress holds: uuid4 gives a new row none of
\* them.
HeldPlanIds ==
    { session[p].plan_id :
        p \in { q \in Sessions : session[q] # Idle } }

\* A request enters store_for_members, in the lowest session that is free,
\* and runs up to the select of the candidate rows (lines 85-142).  A request
\* that raises there is over: it has touched nothing.  (The steps of sessions
\* wait until the response recorded in last is delivered; delivering it
\* changes no table.)
TxnSelect(p, requested_member_id, target_date, meal_plan_spec, additional_member_ids) ==
    /\ last = Idle
    /\ session[p] = Idle
    /\ \A q \in Sessions : q < p => session[q] # Idle
    /\ LET out == store_select(Db, household_member, today,
                      requested_member_id, target_date, meal_plan_spec,
                      additional_member_ids)
           call == [op |-> "store_for_members",
                    requested_member_id |-> requested_member_id,
                    target_date |-> target_date,
                    meal_plan_spec |-> meal_plan_spec,
                    additional_member_ids |-> additional_member_ids]
       IN  session' = [session EXCEPT ![p] =
             IF out.status # "ok"
             THEN Idle
             ELSE [pc |-> "selected",
                   call |-> call,
                   household_id |-> out.household_id,
                   target_member_ids |-> out.target_member_ids,
                   members_with_existing_assignments |->
                       out.members_with_existing_assignments,
                   plan_id |-> out.reusable_plan_id,
                   created |-> FALSE,
                   pending |->
                       [meal_plan |-> {},
                        meal_plan_member |->
                            new_assignments(out.reusable_plan_id,
                                out.members_without_assignments)],
                   raced |-> {}]]
    /\ UNCHANGED <<household, creating, household_member, meal_plan,
                   meal_plan_member, today,
                   last, before, earlier>>

\* No plan to reuse: the session inserts a new plan and flushes (lines
\* 169-191).  created_at is the time of the insert.
TxnFlush(p) ==
    /\ last = Idle
    /\ session[p] # Idle
    /\ session[p].pc = "selected"
    /\ session[p].plan_id = NoPlan
    /\ \E new_id \in PlanIds \ ({ q.id : q \in meal_plan } \cup HeldPlanIds) :
        LET plan == new_meal_plan(new_id, session[p].household_id,
                        session[p].call.target_date,
                        session[p].call.meal_plan_spec, today)
            db == flush(Db, plan)
        IN  /\ meal_plan' = db.meal_plan
            /\ meal_plan_member' = db.meal_plan_member
            /\ session' = [session EXCEPT ![p] =
                 [@ EXCEPT !.pc = "flushed",
                           !.plan_id = new_id,
                           !.created = TRUE,
                           !.pending =
                               [meal_plan |-> {plan},
                                meal_plan_member |->
                                    new_assignments(new_id,
                                        session[p].target_member_ids)]]]
            /\ before' = db
    /\ UNCHANGED <<household, creating, household_member, today, last,
                   earlier>>

\* The session commits what it added; a session that reuses a plan and has
\* nobody to link goes on without a commit (line 166).  The sessions still
\* in progress note that this one committed after their select.
TxnCommit(p) ==
    /\ last = Idle
    /\ session[p] # Idle
    /\ \/ session[p].pc = "flushed"
       \/ session[p].pc = "selected" /\ session[p].plan_id # NoPlan
    /\ LET out == commit(Db, session[p].pending)
           wrote == out.status = "ok" /\ out.db # Db
       IN  /\ meal_plan' = out.db.meal_plan
           /\ meal_plan_member' = out.db.meal_plan_member
           /\ session' = [q \in Sessions |->
                IF q = p
                THEN IF out.status = "ok"
                     THEN [session[p] EXCEPT !.pc = "committed"]
                     ELSE [session[p] EXCEPT !.pc = "failed"]
                ELSE IF q \in InFlight /\ wrote
                THEN [session[q] EXCEPT !.raced = @ \cup {p}]
                ELSE session[q]]
           /\ before' = out.db
    /\ UNCHANGED <<household, creating, household_member, today, last,
                   earlier>>

\* The request is cancelled or its connection fails before the commit: the
\* session is closed and its transaction rolled back.
TxnAbort(p) ==
    /\ last = Idle
    /\ p \in InFlight
    /\ session' = [session EXCEPT ![p] = [@ EXCEPT !.pc = "aborted"]]
    /\ meal_plan' = rollback(Db, session[p].pending).meal_plan
    /\ meal_plan_member' = rollback(Db, session[p].pending).meal_plan_member
    /\ UNCHANGED <<household, creating, household_member, today, last, before,
                   earlier>>

\* The end of the request: after the commit the stored plan is read back and
\* returned (lines 195-204); after a failed commit or an abort the error
\* propagates.  The session is over.
TxnReturn(p) ==
    /\ last = Idle
    /\ session[p] # Idle
    /\ session[p].pc \in {"committed", "failed", "aborted"}
    /\ session' = [session EXCEPT ![p] = Idle]
    /\ Called([session[p].call EXCEPT !.op = "store_for_members"] @@
              [today |-> today,
               ret |-> IF session[p].pc = "committed"
                       THEN stored_plan(Db, session[p].plan_id,
                                session[p].call.requested_member_id)
                       ELSE IF session[p].pc = "failed"
                       THEN [status |-> "IntegrityError"]
                       ELSE [status |-> "Aborted"]])
    /\ UNCHANGED <<household, creating, household_member, meal_plan,
                   meal_plan_member, today>>

\* Members 1 and 2 of household 1 store the base content for the last day,
\* for themselves or for both, in transactions that interleave; reads and
\* revokes run between their steps.
NextTxn ==
    \/ \E p \in Sessions, m \in {1, 2} :
          \E a \in { <<>>, <<3 - m>> } : TxnSelect(p, m, MaxDay, BaseSpec, a)
    \/ \E p \in Sessions : TxnFlush(p)
    \/ \E p \in Sessions : TxnCommit(p)
    \/ \E p \in Sessions : TxnAbort(p)
    \/ \E p \in Sessions : TxnReturn(p)
    \/ \E m \in {1, 2} : GetForMemberAndDate(m, MaxDay)
    \/ \E m \in {1, 2}, q \in PlanIds : Revoke(m, q, FALSE)
    \/ Return
    \/ Tick

SpecTxn == Init /\ [][NextTxn]_vars

---------------------------------------------------------------------------
\* revoke for one member as the transaction it is: the selects of the member
\* and the plan (lines 244-258), the delete of the assignment (276-282), the
\* select of the remaining assignments (284-290), the delete of the plan
\* (292) and the commit (294) are separate round trips, and each session
\* reads the committed tables without the rows it has deleted itself.

\* The tables as the session that has deleted these assignment rows, and has
\* not committed, reads them.
session_view(db, deleted) ==
    [db EXCEPT !.meal_plan_member = @ \ deleted]

\* A request enters revoke with revoke_for_all_members false, in the lowest
\* session that is free, and runs up to the checks of the member, the plan,
\* its household and the assignment (lines 244-269).  A request that raises
\* there is over: it has touched nothing.
RevokeSelect(p, member_id, meal_plan_id) ==
    /\ last = Idle
    /\ session[p] = Idle
    /\ \A q \in Sessions : q < p => session[q] # Idle
    /\ LET out == revoke(Db, household_member, member_id, meal_plan_id, FALSE)
       IN  session' = [session EXCEPT ![p] =
             IF out.ret.status # "ok"
             THEN Idle
             ELSE [pc |-> "revoking",
                   member_id |-> member_id,
                   meal_plan_id |-> meal_plan_id,
                   deleted |-> {},
                   meal_plan_deleted |-> FALSE]]
    /\ UNCHANGED <<household, creating, household_member, meal_plan,
                   meal_plan_member, today, last, before, earlier>>

\* delete(MealPlanMember).where(meal_plan_id, member_id) and the flush (lines
\* 276-282): the rows are gone for this session alone.
RevokeDelete(p) ==
    /\ last = Idle
    /\ session[p] # Idle
    /\ session[p].pc = "revoking"
    /\ session' = [session EXCEPT ![p] =
         [pc |-> "deleted",
          member_id |-> session[p].member_id,
          meal_plan_id |-> session[p].meal_plan_id,
          deleted |-> { a \in meal_plan_member :
                          /\ a.meal_plan_id = session[p].meal_plan_id
                          /\ a.member_id = session[p].member_id },
          meal_plan_deleted |-> FALSE]]
    /\ UNCHANGED <<household, creating, household_member, meal_plan,
                   meal_plan_member, today, last, before, earlier>>

\* The select of the remaining assignments of the plan and, when the session
\* sees none, the delete of the plan (lines 284-292).
RevokeRemaining(p) ==
    /\ last = Idle
    /\ session[p] # Idle
    /\ session[p].pc = "deleted"
    /\ LET remaining_assignment ==
               assignments(session_view(Db, session[p].deleted),
                           session[p].meal_plan_id)
       IN  session' = [session EXCEPT ![p] =
             [pc |-> "checked",
              member_id |-> session[p].member_id,
              meal_plan_id |-> session[p].meal_plan_id,
              deleted |-> session[p].deleted,
              meal_plan_deleted |-> remaining_assignment = {}]]
    /\ UNCHANGED <<household, creating, household_member, meal_plan,
                   meal_plan_member, today, last, before, earlier>>

\* db.commit() and the return (lines 294-300): the session's deletes reach
\* the tables and the call is over.
RevokeCommit(p) ==
    /\ last = Idle
    /\ session[p] # Idle
    /\ session[p].pc = "checked"
    /\ LET db1 == session_view(Db, session[p].deleted)
           db2 == IF session[p].meal_plan_deleted
                  THEN delete_meal_plan(db1, session[p].meal_plan_id)
                  ELSE db1
       IN  /\ meal_plan' = db2.meal_plan
           /\ meal_plan_member' = db2.meal_plan_member
    /\ session' = [session EXCEPT ![p] = Idle]
    /\ Called([op |-> "revoke",
               today |-> today,
               member_id |-> session[p].member_id,
               meal_plan_id |-> session[p].meal_plan_id,
               revoke_for_all_members |-> FALSE,
               ret |-> [status |-> "ok",
                        meal_plan_id |-> session[p].meal_plan_id,
                        revoked_for_member_id |-> session[p].member_id,
                        revoked_for_all_members |-> FALSE,
                        meal_plan_deleted |-> session[p].meal_plan_deleted]])
    /\ UNCHANGED <<household, creating, household_member, today>>

\* A call of store_for_members made while no revoke is in progress.
StoreBetweenRevokes(requested_member_id, target_date, additional_member_ids) ==
    /\ \A p \in Sessions : session[p] = Idle
    /\ StoreForMembers(requested_member_id, target_date, BaseSpec,
                       additional_member_ids)

\* Members 1 and 2 of household 1 store plans one call at a time while no
\* revoke is in progress, and revoke for themselves in sessions that
\* interleave.
NextRevoke ==
    \/ \E m \in {1, 2}, d \in Days :
          \E a \in { <<>>, <<3 - m>> } : StoreBetweenRevokes(m, d, a)
    \/ \E p \in Sessions, m \in {1, 2}, q \in PlanIds : RevokeSelect(p, m, q)
    \/ \E p \in Sessions : RevokeDelete(p)
    \/ \E p \in Sessions : RevokeRemaining(p)
    \/ \E p \in Sessions : RevokeCommit(p)
    \/ Return

SpecRevoke == Init /\ [][NextRevoke]_vars

---------------------------------------------------------------------------
\* Deletion of a household member next to the meal plan calls.

\* HouseholdMemberEntity.delete: delete(HouseholdMember).where(id ==
\* entity_id) and the commit.  The member's meal_plan_member rows go with it
\* (ForeignKey household_member.id ondelete="CASCADE"); the statement touches
\* no meal_plan row.  Returns rowcount > 0.
delete_household_member(db, members_table, entity_id) ==
    [members_table |-> { m \in members_table : m.id # entity_id },
     db |-> [db EXCEPT !.meal_plan_member =
                { a \in @ : a.member_id # entity_id }],
     ret |-> \E m \in members_table : m.id = entity_id]

\* A call of HouseholdMemberEntity.delete.
DeleteMember(entity_id) ==
    /\ last = Idle
    /\ LET out == delete_household_member(Db, household_member, entity_id)
       IN  /\ household_member' = out.members_table
           /\ meal_plan' = out.db.meal_plan
           /\ meal_plan_member' = out.db.meal_plan_member
           /\ Called([op |-> "delete_member",
                      today |-> today,
                      entity_id |-> entity_id,
                      ret |-> out.ret])
    /\ UNCHANGED <<household, creating, today, session>>

\* Members 1 and 2 of household 1 store for themselves or for both and
\* revoke, and either of them, or a member that does not exist, is deleted.
NextMembers ==
    \/ \E m \in {1, 2}, d \in Days, s \in {BaseSpec, OtherSpec} :
          \E a \in { <<>>, <<3 - m>> } : StoreForMembers(m, d, s, a)
    \/ \E m \in {1, 2}, p \in PlanIds, f \in BOOLEAN : Revoke(m, p, f)
    \/ \E m \in {1, 2, 5} : DeleteMember(m)
    \/ Return
    \/ Tick

SpecMembers == Init /\ [][NextMembers]_vars

---------------------------------------------------------------------------
\* HouseholdEntity: create, which asks get_by_owner in one session and
\* inserts in another, and delete.  The household rows carry id and
\* owner_id; a household is created here without initial members.

HouseholdIds == 1..MaxHouseholds

\* The users (the "sub" of the token).
Owners == {"u1", "u2"}

\* HouseholdEntity.get_by_owner: the owner's household, None, or the error of
\* scalar_one_or_none() when the select has more than one row.
get_by_owner(households, owner_id) ==
    LET rows == { h \in households : h.owner_id = owner_id }
    IN  IF Cardinality(rows) > 1
        THEN [status |-> "MultipleResultsFound"]
        ELSE IF rows = {}
        THEN [status |-> "ok", household |-> {}]
        ELSE [status |-> "ok", household |-> rows]

\* The first half of HouseholdEntity.create (lines 151-156): the check for a
\* household of the owner, in a session of its own.
CreateCheck(p, owner_id) ==
    /\ creating[p] = Idle
    /\ \A q \in Sessions : q < p => creating[q] # Idle
    /\ LET existing == get_by_owner(household, owner_id)
           owned == { h \in household : h.owner_id = owner_id }
       IN  creating' = [creating EXCEPT ![p] =
             IF existing.status # "ok"
             THEN [pc |-> "done", owner_id |-> owner_id, owned |-> owned,
                   ret |-> existing]
             ELSE IF existing.household # {}
             THEN [pc |-> "done", owner_id |-> owner_id, owned |-> owned,
                   ret |-> [status |-> "ConflictError"]]
             ELSE [pc |-> "checked", owner_id |-> owner_id, owned |-> owned]]
    /\ UNCHANGED <<household, household_member, meal_plan, meal_plan_member,
                   today, last, before, earlier, session>>

\* The second half of HouseholdEntity.create (lines 158-178): the insert of
\* the household with a new id and the commit.
CreateInsert(p) ==
    /\ creating[p] # Idle
    /\ creating[p].pc = "checked"
    /\ \E household_id \in HouseholdIds \ { h.id : h \in household } :
        /\ household' =
             household \cup { [id |-> household_id,
                               owner_id |-> creating[p].owner_id] }
        /\ creating' = [creating EXCEPT ![p] =
             [pc |-> "done", owner_id |-> creating[p].owner_id,
              owned |-> creating[p].owned,
              ret |-> [status |-> "ok", id |-> household_id]]]
    /\ UNCHANGED <<household_member, meal_plan, meal_plan_member, today,
                   last, before, earlier, session>>

\* The create call returns or raises: it is over.
CreateReturn(p) ==
    /\ creating[p] # Idle
    /\ creating[p].pc = "done"
    /\ creating' = [creating EXCEPT ![p] = Idle]
    /\ UNCHANGED <<household, household_member, meal_plan, meal_plan_member,
                   today, last, before, earlier, session>>

\* HouseholdEntity.delete (lines 214-229).
DeleteHousehold(entity_id) ==
    /\ \E h \in household : h.id = entity_id
    /\ household' = { h \in household : h.id # entity_id }
    /\ UNCHANGED <<creating, household_member, meal_plan, meal_plan_member,
                   today, last, before, earlier, session>>

NextHousehold ==
    \/ \E p \in Sessions, u \in Owners : CreateCheck(p, u)
    \/ \E p \in Sessions : CreateInsert(p)
    \/ \E p \in Sessions : CreateReturn(p)
    \/ \E h \in HouseholdIds : DeleteHousehold(h)

SpecHousehold == Init /\ [][NextHousehold]_vars

---------------------------------------------------------------------------
\* What the claims speak of.

\* The members a store_for_members call targets.
Targets(call) ==
    {call.requested_member_id} \cup Range(call.additional_member_ids)

\* The plans of db for this date that the member is assigned to.
PlansOf(db, member_id, target_date) ==
    { p \in db.meal_plan :
        /\ p.applied_on = target_date
        /\ \E a \in db.meal_plan_member :
              a.meal_plan_id = p.id /\ a.member_id = member_id }

\* The members assigned to the plan with this id in db.
AssignedTo(db, plan_id) ==
    { a.member_id : a \in { x \in db.meal_plan_member :
                              x.meal_plan_id = plan_id } }

\* The five compared fields of a stored plan and of incoming content.
ContentOf(plan) ==
    <<plan.source_meal_plan_id, plan.breakfast, plan.lunch, plan.dinner,
      plan.reasoning>>

IncomingContent(meal_plan_spec) ==
    <<meal_plan_spec.id, meal_plan_spec.breakfast, meal_plan_spec.lunch,
      meal_plan_spec.dinner, meal_plan_spec.reasoning>>

\* The call was not turned away before the candidate lookup: its date is not
\* past and its target ids are members of one household.
PassesValidation(call) ==
    /\ call.target_date >= call.today
    /\ \A m \in Targets(call) : \E r \in household_member : r.id = m
    /\ \A m, n \in Targets(call) :
          \A r, q \in household_member :
              (r.id = m /\ q.id = n) => r.household_id = q.household_id

StoreReturned == last # Idle /\ last.op = "store_for_members"

RevokeReturned == last # Idle /\ last.op = "revoke"

---------------------------------------------------------------------------
\* C1.  Calls run one at a time; in every state reached from the empty
\* store by store_for_members and revoke calls, no member is assigned to
\* more than one MealPlan with the same date.
C1_OnePlanPerMemberAndDate ==
    \A m \in MemberIds, d \in Days : Cardinality(PlansOf(Db, m, d)) <= 1

\* C1 witness: two plans exist and one member holds both, on different dates.
C1_Witness ==
    \E m \in MemberIds :
        /\ \A d \in Days : Cardinality(PlansOf(Db, m, d)) = 1
        /\ Cardinality(meal_plan) = 2

\* C2.  In every committed state every MealPlan row has at least one
\* assignment row.
C2_NoPlanWithoutAssignment ==
    \A p \in meal_plan : AssignedTo(Db, p.id) # {}

\* C2 witness: a per-member revoke has just removed the last assignment of a
\* plan, and a plan that is still assigned remains.
C2_Witness ==
    /\ RevokeReturned
    /\ last.ret.status = "ok"
    /\ ~ last.revoke_for_all_members
    /\ Cardinality(AssignedTo(before, last.meal_plan_id)) = 1
    /\ meal_plan # {}

\* C3 as stated.  Idempotent re-store: from a state in which no target member
\* has a plan for the date, the same store_for_members call made twice in a
\* row returns the same plan id both times, and afterwards exactly one
\* MealPlan row exists for that household and date, with the assignment rows
\* unchanged by the second call.
SecondStoreOfFresh ==
    /\ StoreReturned
    /\ earlier # Idle
    /\ earlier.last.op = "store_for_members"
    /\ earlier.last.requested_member_id = last.requested_member_id
    /\ earlier.last.target_date = last.target_date
    /\ earlier.last.meal_plan_spec = last.meal_plan_spec
    /\ earlier.last.additional_member_ids = last.additional_member_ids
    /\ earlier.last.ret.status = "ok"
    /\ \A m \in Targets(last) :
          PlansOf(earlier.before, m, last.target_date) = {}

C3_AsStated ==
    SecondStoreOfFresh =>
        /\ last.ret.status = "ok"
        /\ last.ret.plan.id = earlier.last.ret.plan.id
        /\ Cardinality({ p \in meal_plan :
                           /\ p.household_id = last.ret.plan.household_id
                           /\ p.applied_on = last.target_date }) = 1
        /\ meal_plan_member = before.meal_plan_member

\* C3, amended.  From a state in which no target member has a plan for the
\* date, the same store_for_members call made twice in a row returns the
\* same plan id both times; the second call creates no MealPlan row and
\* leaves the assignment rows unchanged, and afterwards exactly one MealPlan
\* row for that date has a target member assigned (other members of the
\* household may hold other plans for the date).
C3_IdempotentReStore ==
    SecondStoreOfFresh =>
        /\ last.ret.status = "ok"
        /\ last.ret.plan.id = earlier.last.ret.plan.id
        /\ meal_plan = before.meal_plan
        /\ meal_plan_member = before.meal_plan_member
        /\ Cardinality(UNION { PlansOf(Db, m, last.target_date) :
                                 m \in Targets(last) }) = 1
        /\ \A m \in Targets(last) :
              PlansOf(Db, m, last.target_date) # {}

\* C3 witness: the second of two identical calls for two members has
\* returned, and the first had found them without a plan for the date.
C3_Witness ==
    /\ SecondStoreOfFresh
    /\ Cardinality(Targets(last)) = 2
    /\ last.ret.status = "ok"

\* C4.  Content-conflict rejection: when a target member M of a
\* store_for_members call holds a plan for the call's date D whose content
\* differs from the incoming content in any of source_meal_plan_id,
\* breakfast, lunch, dinner or reasoning, a call that passes the date and
\* membership checks fails with the content-conflict error, and M's plan for
\* D and its content are as before.
C4_ContentConflictRejected ==
    StoreReturned =>
        \A m \in Targets(last) :
            (/\ PassesValidation(last)
             /\ \E p \in PlansOf(before, m, last.target_date) :
                   ContentOf(p) # IncomingContent(last.meal_plan_spec))
            => /\ last.ret.status = "ConflictError"
               /\ last.ret.detail = "content"
               /\ PlansOf(Db, m, last.target_date)
                    = PlansOf(before, m, last.target_date)

\* C4 witness: a call was refused with the content-conflict error for a
\* member whose plan differs from the incoming content in reasoning alone.
C4_Witness ==
    /\ StoreReturned
    /\ last.ret.status = "ConflictError"
    /\ last.ret.detail = "content"
    /\ \E p \in PlansOf(Db, last.requested_member_id, last.target_date) :
          /\ p.reasoning # last.meal_plan_spec.reasoning
          /\ [p EXCEPT !.reasoning = last.meal_plan_spec.reasoning]
               = [p EXCEPT !.source_meal_plan_id = last.meal_plan_spec.id,
                           !.breakfast = last.meal_plan_spec.breakfast,
                           !.lunch = last.meal_plan_spec.lunch,
                           !.dinner = last.meal_plan_spec.dinner,
                           !.reasoning = last.meal_plan_spec.reasoning]

\* C5 as stated.  Merge across members: when plan P1 with content A is
\* assigned to M1 alone for date D, store_for_members(requested=M2, D, A,
\* additional=[M1]) creates no MealPlan row, returns P1, and P1 is then
\* assigned to exactly M1 and M2.
MergeCall(p1) ==
    /\ StoreReturned
    /\ PassesValidation(last)
    /\ Len(last.additional_member_ids) = 1
    /\ last.additional_member_ids[1] # last.requested_member_id
    /\ p1 \in before.meal_plan
    /\ p1.applied_on = last.target_date
    /\ ContentOf(p1) = IncomingContent(last.meal_plan_spec)
    /\ AssignedTo(before, p1.id) = { last.additional_member_ids[1] }

MergeResult(p1) ==
    /\ last.ret.status = "ok"
    /\ last.ret.plan.id = p1.id
    /\ meal_plan = before.meal_plan
    /\ AssignedTo(Db, p1.id) = Targets(last)

C5_AsStated ==
    \A p1 \in before.meal_plan : MergeCall(p1) => MergeResult(p1)

\* C5, amended.  When plan P1 with content A is assigned to M1 alone for
\* date D and M2 has no plan for D, store_for_members(requested=M2, D, A,
\* additional=[M1]) creates no MealPlan row, returns P1, and P1 is then
\* assigned to exactly M1 and M2.
C5_MergeAcrossMembers ==
    \A p1 \in before.meal_plan :
        (/\ MergeCall(p1)
         /\ PlansOf(before, last.requested_member_id, last.target_date) = {})
        => MergeResult(p1)

\* C5 witness: such a call has returned P1.
C5_Witness ==
    \E p1 \in before.meal_plan :
        /\ MergeCall(p1)
        /\ PlansOf(before, last.requested_member_id, last.target_date) = {}
        /\ MergeResult(p1)

\* C6.  Convergence, by induction on the sequence of calls: a
\* store_for_members call on the empty store leaves exactly one MealPlan
\* row, assigned to the call's target set; and when exactly one MealPlan row
\* exists, a call for its date with its content whose target set shares a
\* member with the members assigned to it leaves that row the only one,
\* assigned to the union of the two sets.  (The calls are those that pass
\* the date and membership checks.)
C6_Convergence ==
    (StoreReturned /\ PassesValidation(last)) =>
        /\ before.meal_plan = {} =>
              /\ Cardinality(meal_plan) = 1
              /\ \A p \in meal_plan :
                    /\ p.applied_on = last.target_date
                    /\ ContentOf(p) = IncomingContent(last.meal_plan_spec)
                    /\ AssignedTo(Db, p.id) = Targets(last)
        /\ \A p \in before.meal_plan :
              (/\ before.meal_plan = {p}
               /\ p.applied_on = last.target_date
               /\ ContentOf(p) = IncomingContent(last.meal_plan_spec)
               /\ AssignedTo(before, p.id) \cap Targets(last) # {})
              => /\ meal_plan = {p}
                 /\ AssignedTo(Db, p.id)
                      = AssignedTo(before, p.id) \cup Targets(last)

\* C6 witness: the only plan, assigned to two members, has taken in a third
\* through a call whose target set overlaps its members without covering
\* them.
C6_Witness ==
    /\ StoreReturned
    /\ PassesValidation(last)
    /\ \E p \in before.meal_plan :
          /\ before.meal_plan = {p}
          /\ meal_plan = {p}
          /\ Cardinality(AssignedTo(before, p.id)) = 2
          /\ AssignedTo(before, p.id) \cap Targets(last) # {}
          /\ ~ (AssignedTo(before, p.id) \subseteq Targets(last))
          /\ Cardinality(AssignedTo(Db, p.id)) = 3

\* The target members of the last store_for_members call that the call found
\* assigned to a plan for its date with content other than the incoming one.
ConflictingMembers ==
    { m \in Targets(last) :
        \E p \in PlansOf(before, m, last.target_date) :
            ContentOf(p) # IncomingContent(last.meal_plan_spec) }

\* C7.  Whole-request conflict failure: a store_for_members call that passes
\* the date and membership checks fails with a conflict error exactly when
\* at least one target member is assigned, for the target date, to a plan
\* whose content differs from the incoming content; the error names exactly
\* those members, in order, and no plan or assignment row is written.
C7_WholeRequestConflict ==
    StoreReturned =>
        /\ PassesValidation(last) =>
              (last.ret.status = "ConflictError" <=> ConflictingMembers # {})
        /\ (last.ret.status = "ConflictError" /\ last.ret.detail = "content")
              => /\ last.ret.members = sorted(ConflictingMembers)
                 /\ last.ret.date = last.target_date
                 /\ ConflictingMembers # {}
                 /\ Db = before

\* C7 witness: a call for three members was refused for one of them; of the
\* other two, one held a matching plan and one held no plan.
C7_Witness ==
    /\ StoreReturned
    /\ last.ret.status = "ConflictError"
    /\ last.ret.detail = "content"
    /\ Cardinality(Targets(last)) = 3
    /\ Len(last.ret.members) = 1
    /\ \E m \in Targets(last) : PlansOf(before, m, last.target_date) = {}
    /\ \E m \in Targets(last) :
          \E p \in PlansOf(before, m, last.target_date) :
              ContentOf(p) = IncomingContent(last.meal_plan_spec)

\* C8.  Partial revoke preserves the plan: when plan P is assigned to M and
\* at least one other member, revoke(M, P, revoke_for_all_members=false)
\* removes M's assignment to P and nothing else, and reports
\* meal_plan_deleted = false.
C8_PartialRevoke ==
    (/\ RevokeReturned
     /\ ~ last.revoke_for_all_members
     /\ last.member_id \in AssignedTo(before, last.meal_plan_id)
     /\ AssignedTo(before, last.meal_plan_id) # {last.member_id})
    => /\ last.ret.status = "ok"
       /\ last.ret.meal_plan_deleted = FALSE
       /\ meal_plan = before.meal_plan
       /\ meal_plan_member =
            before.meal_plan_member
              \ { [meal_plan_id |-> last.meal_plan_id,
                   member_id |-> last.member_id] }

\* C8 witness: a member left a shared plan while holding another plan, which
\* it still holds.
C8_Witness ==
    /\ RevokeReturned
    /\ ~ last.revoke_for_all_members
    /\ last.member_id \in AssignedTo(before, last.meal_plan_id)
    /\ AssignedTo(before, last.meal_plan_id) # {last.member_id}
    /\ \E a \in meal_plan_member : a.member_id = last.member_id

\* The last revoke found its plan assigned to the revoking member alone.
RevokedLastAssignment(call, db) ==
    /\ call.op = "revoke"
    /\ ~ call.revoke_for_all_members
    /\ AssignedTo(db, call.meal_plan_id) = {call.member_id}

\* C9.  Last-assignment revoke deletes the plan: when plan P for date D is
\* assigned to M alone, revoke(M, P, revoke_for_all_members=false) deletes P
\* and reports meal_plan_deleted = true, and the get_for_member_and_date(M,
\* D) that follows fails with not-found.
C9_LastAssignmentRevoke ==
    /\ (RevokeReturned /\ RevokedLastAssignment(last, before))
          => /\ last.ret.status = "ok"
             /\ last.ret.meal_plan_deleted = TRUE
             /\ \A p \in meal_plan : p.id # last.meal_plan_id
    /\ (/\ last # Idle
        /\ last.op = "get_for_member_and_date"
        /\ earlier # Idle
        /\ RevokedLastAssignment(earlier.last, earlier.before)
        /\ last.member_id = earlier.last.member_id
        /\ \E p \in earlier.before.meal_plan :
              p.id = earlier.last.meal_plan_id
                /\ p.applied_on = last.target_date)
          => last.ret.status = "NotFoundError"

\* C9 witness: the get that followed such a revoke has failed, while the
\* member still holds a plan for another date.
C9_Witness ==
    /\ last # Idle
    /\ last.op = "get_for_member_and_date"
    /\ earlier # Idle
    /\ RevokedLastAssignment(earlier.last, earlier.before)
    /\ earlier.last.ret.meal_plan_deleted = TRUE
    /\ last.ret.status = "NotFoundError"
    /\ \E a \in meal_plan_member : a.member_id = last.member_id

\* C10.  Revoke-for-all cascades: when plan P is assigned to a set S of
\* members, revoke(M, P, revoke_for_all_members=true) by any M in S deletes
\* P and every assignment of P, reports meal_plan_deleted = true, and leaves
\* every other plan and assignment as it was.
C10_RevokeForAll ==
    (/\ RevokeReturned
     /\ last.revoke_for_all_members
     /\ last.member_id \in AssignedTo(before, last.meal_plan_id))
    => /\ last.ret.status = "ok"
       /\ last.ret.meal_plan_deleted = TRUE
       /\ meal_plan = { p \in before.meal_plan : p.id # last.meal_plan_id }
       /\ meal_plan_member =
            { a \in before.meal_plan_member :
                a.meal_plan_id # last.meal_plan_id }

\* C10 witness: a plan shared by three members was revoked for all by one of
\* them, and another plan with its assignment remains.
C10_Witness ==
    /\ RevokeReturned
    /\ last.revoke_for_all_members
    /\ last.ret.status = "ok"
    /\ Cardinality(AssignedTo(before, last.meal_plan_id)) = 3
    /\ meal_plan # {}
    /\ meal_plan_member # {}

\* The households of the household_member rows with these ids.
HouseholdsOf(member_ids) ==
    { r.household_id : r \in { x \in household_member : x.id \in member_ids } }

\* C11.  Cross-household rejection: a store_for_members call with a date that
\* is not past whose target ids all resolve to members, of two or more
\* households, fails with the conflict error of the household check and
\* writes no plan or assignment row.
C11_CrossHouseholdRejected ==
    (/\ StoreReturned
     /\ last.target_date >= last.today
     /\ \A m \in Targets(last) : \E r \in household_member : r.id = m
     /\ Cardinality(HouseholdsOf(Targets(last))) >= 2)
    => /\ last.ret.status = "ConflictError"
       /\ last.ret.detail = "household"
       /\ Db = before

\* C11 witness: a member of household 1 and the member of household 2 were
\* targeted together while plans were stored, and the call failed.
C11_Witness ==
    /\ StoreReturned
    /\ last.target_date >= last.today
    /\ Cardinality(HouseholdsOf(Targets(last))) = 2
    /\ Cardinality(Targets(last)) = 2
    /\ last.ret.status = "ConflictError"
    /\ meal_plan # {}
    /\ \E a \in meal_plan_member : a.member_id \in Targets(last)

\* C12.  Past-date rejection: store_for_members with a target_date earlier
\* than date.today() fails with the validation error (DataError) and writes
\* nothing, whatever its other arguments are; with target_date equal to
\* date.today() it does not fail with that error.
C12_PastDateRejected ==
    StoreReturned
    => /\ (last.target_date < last.today)
             => (last.ret.status = "DataError" /\ Db = before)
       /\ (last.target_date = last.today)
             => last.ret.status # "DataError"

\* C12 witness: a call for yesterday that names an id of no member got the
\* validation error, while plans were stored.
C12_Witness ==
    /\ StoreReturned
    /\ last.target_date < last.today
    /\ \E m \in Targets(last) : \A r \in household_member : r.id # m
    /\ last.ret.status = "DataError"
    /\ meal_plan # {}

\* C13.  In every state reachable by store_for_members and revoke, every
\* member assigned to a MealPlan is a member of that plan's household, so
\* all members sharing a plan belong to one household.
C13_AssignedMembersInPlanHousehold ==
    \A a \in meal_plan_member :
        \E p \in meal_plan :
            /\ p.id = a.meal_plan_id
            /\ [id |-> a.member_id, household_id |-> p.household_id]
                   \in household_member

\* C13 witness: a plan of household 1 shared by two members next to a plan of
\* household 2.
C13_Witness ==
    /\ \E p \in meal_plan :
          p.household_id = 1 /\ Cardinality(AssignedTo(Db, p.id)) >= 2
    /\ \E p \in meal_plan :
          p.household_id = 2 /\ AssignedTo(Db, p.id) # {}

\* C14.  A stored MealPlan is immutable: a plan id that has a row before and
\* after a step has the same row (household, date, source_meal_plan_id,
\* breakfast, lunch, dinner, reasoning, created_at), and no id has two rows;
\* store_for_members and revoke only add or remove rows.
C14_StoredPlanImmutable ==
    [][ /\ \A p \in meal_plan : \A q \in meal_plan' : q.id = p.id => q = p
        /\ \A p, q \in meal_plan' : p.id = q.id => p = q ]_vars

\* C14 witness: a plan created on an earlier day has just been reused by a
\* store_for_members call that linked a further member to it.
C14_Witness ==
    /\ StoreReturned
    /\ last.ret.status = "ok"
    /\ meal_plan = before.meal_plan
    /\ meal_plan_member # before.meal_plan_member
    /\ last.ret.plan.created_at < last.today

\* What revoke asks for: the member exists, the plan exists in the member's
\* household, and the member is assigned to it.
RevokePreconditions(call, db) ==
    \E m \in household_member : \E p \in db.meal_plan :
        /\ m.id = call.member_id
        /\ p.id = call.meal_plan_id
        /\ p.household_id = m.household_id
        /\ call.member_id \in AssignedTo(db, p.id)

\* C16.  revoke(M, P, flag) succeeds only when M exists, P exists, P's
\* household is M's household and M is assigned to P; in every other case it
\* fails with a not-found error and leaves every plan and assignment row
\* unchanged, also when revoke_for_all_members is true and the caller is a
\* member of P's household that is not assigned to P.
C16_RevokePreconditions ==
    RevokeReturned
    => /\ (last.ret.status = "ok") <=> RevokePreconditions(last, before)
       /\ (last.ret.status # "ok")
             => (last.ret.status = "NotFoundError" /\ Db = before)

\* C16 witness: a member of the plan's household that is not assigned to the
\* plan asked to revoke it for all members and got not-found; the plan and
\* its assignment are still there.
C16_Witness ==
    /\ RevokeReturned
    /\ last.revoke_for_all_members
    /\ last.ret.status = "NotFoundError"
    /\ \E m \in household_member : \E p \in meal_plan :
          /\ m.id = last.member_id
          /\ p.id = last.meal_plan_id
          /\ p.household_id = m.household_id
          /\ AssignedTo(Db, p.id) # {}
          /\ last.member_id \notin AssignedTo(Db, p.id)

RowsOf(db, plan_id) ==
    [meal_plan |-> { x \in db.meal_plan : x.id = plan_id },
     meal_plan_member |-> assignments(db, plan_id)]

\* C17.  store_for_members commits atomically: the step that ends a
\* session's transaction either adds all of its rows at once (a new plan with
\* the assignments of all target members, or the assignments of all members
\* that had none to the reused plan) or, on an abort or a failed commit, adds
\* none; and while a session has inserted its plan without having committed,
\* and after it was aborted or failed, no row of that plan is in the tables.
C17_AtomicCommit ==
    [][ \A p \in Sessions :
          /\ (p \in InFlight /\ session'[p].pc # session[p].pc)
               => IF session'[p].pc = "committed"
                  THEN LET call == session[p].call
                           plan_id == session'[p].plan_id
                           linked ==
                               IF session'[p].created
                               THEN Targets(call)
                               ELSE Targets(call) \
                                      session[p].members_with_existing_assignments
                       IN  /\ session'[p].created
                              => \E x \in meal_plan' \ meal_plan :
                                    /\ x.id = plan_id
                                    /\ meal_plan' = meal_plan \cup {x}
                                    /\ AssignedTo(Db', plan_id) = Targets(call)
                           /\ ~ session'[p].created => meal_plan' = meal_plan
                           /\ meal_plan_member' =
                                meal_plan_member \cup
                                  { [meal_plan_id |-> plan_id, member_id |-> m] :
                                       m \in linked }
                  ELSE /\ meal_plan' = meal_plan
                       /\ meal_plan_member' = meal_plan_member
          /\ (/\ session'[p] # Idle
              /\ session'[p].pc \in {"flushed", "aborted", "failed"}
              /\ session'[p].created)
               => RowsOf(Db', session'[p].plan_id)
                    = [meal_plan |-> {}, meal_plan_member |-> {}] ]_vars

\* C17 witness: a session was aborted after it had inserted its plan; other
\* rows are stored, none of them the aborted session's.
C17_Witness ==
    \E p \in Sessions :
        /\ session[p] # Idle
        /\ session[p].pc = "aborted"
        /\ session[p].created
        /\ meal_plan # {}
        /\ RowsOf(Db, session[p].plan_id)
             = [meal_plan |-> {}, meal_plan_member |-> {}]

\* Session q commits in this step, after session p, which committed between
\* q's select and now; both store the same content for the same date and
\* members, and both found no target member with a plan.
RacingCommit(p, q) ==
    /\ p # q
    /\ session[p] # Idle
    /\ session[p].pc = "committed"
    /\ q \in InFlight
    /\ session'[q] # Idle
    /\ session'[q].pc \in {"committed", "failed"}
    /\ p \in session[q].raced
    /\ Targets(session[p].call) = Targets(session[q].call)
    /\ session[p].call.target_date = session[q].call.target_date
    /\ session[p].call.meal_plan_spec = session[q].call.meal_plan_spec
    /\ session[p].members_with_existing_assignments = {}
    /\ session[q].members_with_existing_assignments = {}

\* C18.  Documented race: when two store_for_members calls for the same
\* household, date, member set and content have both read the candidate
\* plans, finding none, before either commits, both create a new MealPlan
\* row; and unless the first plan was revoked in between, the second commit
\* leaves two content-identical plans for the date, every target member
\* assigned to both.
C18_ConcurrentStoresDuplicate ==
    [][ \A p, q \in Sessions :
          RacingCommit(p, q)
          => /\ session[p].created
             /\ session[q].created
             /\ session'[q].pc = "committed"
             /\ session[p].plan_id # session[q].plan_id
             /\ (\E x \in meal_plan :
                    /\ x.id = session[p].plan_id
                    /\ AssignedTo(Db, x.id) = Targets(session[p].call))
                 => \E x, y \in meal_plan' :
                       /\ x.id = session[p].plan_id
                       /\ y.id = session[q].plan_id
                       /\ x.applied_on = y.applied_on
                       /\ ContentOf(x) = ContentOf(y)
                       /\ AssignedTo(Db', x.id) = Targets(session[q].call)
                       /\ AssignedTo(Db', y.id) = Targets(session[q].call) ]_vars

\* C18 witness: both sessions have committed, the second after a race with
\* the first, and two plans with the same content and date are stored, both
\* assigned to the same two members.
C18_Witness ==
    \E p, q \in Sessions :
        /\ p # q
        /\ session[p] # Idle /\ session[p].pc = "committed"
        /\ session[q] # Idle /\ session[q].pc = "committed"
        /\ p \in session[q].raced
        /\ \E x, y \in meal_plan :
              /\ x.id = session[p].plan_id
              /\ y.id = session[q].plan_id
              /\ x.id # y.id
              /\ x.applied_on = y.applied_on
              /\ ContentOf(x) = ContentOf(y)
              /\ AssignedTo(Db, x.id) = {1, 2}
              /\ AssignedTo(Db, y.id) = {1, 2}

\* The plan of S that comes first by created_at descending, id descending.
Latest(S) ==
    CHOOSE p \in S :
        \A q \in S : \/ p.created_at > q.created_at
                     \/ p.created_at = q.created_at /\ p.id >= q.id

\* C20.  Reuse preference: a store_for_members call that no target member
\* conflicts with uses the requested member's matching plan if the requested
\* member has one (the most recently created, ties by larger id); otherwise
\* the matching plan that is first by creation time descending, id descending
\* among the other target members; and none if no target member has one.
C20_ReusePreference ==
    [][ \A p \in Sessions :
          (session[p] = Idle /\ session'[p] # Idle)
          => LET call == session'[p].call
                 own == PlansOf(Db, call.requested_member_id, call.target_date)
                 others ==
                     UNION { PlansOf(Db, m, call.target_date) :
                               m \in Targets(call) \ {call.requested_member_id} }
             IN  /\ \A x \in own \cup others :
                       ContentOf(x) = IncomingContent(call.meal_plan_spec)
                 /\ session'[p].plan_id =
                      IF own # {} THEN Latest(own).id
                      ELSE IF others # {} THEN Latest(others).id
                      ELSE NoPlan ]_vars

\* C20 witness: a session has chosen the plan to reuse for a requested member
\* that holds two matching plans for the date; it chose the one created
\* later, which has the smaller id.
C20_Witness ==
    \E p \in Sessions :
        /\ session[p] # Idle
        /\ session[p].pc = "selected"
        /\ session[p].raced = {}
        /\ \E x, y \in PlansOf(Db, session[p].call.requested_member_id,
                               session[p].call.target_date) :
              /\ x.id = session[p].plan_id
              /\ y.id > x.id
              /\ y.created_at < x.created_at

\* C19.  A user owns at most one household: HouseholdEntity.create for an
\* owner who already owns a household fails with a conflict error, and in
\* every reachable state, interleavings of concurrent create calls by the
\* same owner included, no owner id appears on two household rows.
C19_OneHouseholdPerOwner ==
    /\ \A p \in Sessions :
          (/\ creating[p] # Idle
           /\ creating[p].pc = "done"
           /\ creating[p].owned # {})
          => creating[p].ret.status = "ConflictError"
    /\ \A g, h \in household : g.owner_id = h.owner_id => g = h


---------------------------------------------------------------------------
\* The target members of the last store_for_members call that held no plan
\* for its date when the call began.
Unassigned ==
    { m \in Targets(last) : PlansOf(before, m, last.target_date) = {} }

\* The last call was a store_for_members call that took the reuse path: it
\* passed the date and membership checks, no target member held a plan of
\* other content for the date, and some target member held a plan for it.
ReusePath ==
    /\ StoreReturned
    /\ PassesValidation(last)
    /\ ConflictingMembers = {}
    /\ Unassigned # Targets(last)

\* C21.  On the reuse path of store_for_members the rows written are exactly
\* one assignment (reusable plan, m) for each target member m that had no
\* assignment for the target date: no MealPlan row is created, no existing
\* assignment is removed or written again, and when there is no such member
\* nothing is written.
C21_ReusePathWrites ==
    ReusePath =>
        /\ last.ret.status = "ok"
        /\ meal_plan = before.meal_plan
        /\ \E p \in before.meal_plan : p.id = last.ret.plan.id
        /\ LET written == { [meal_plan_id |-> last.ret.plan.id,
                             member_id |-> m] : m \in Unassigned }
           IN  /\ meal_plan_member = before.meal_plan_member \cup written
               /\ before.meal_plan_member \cap written = {}
               /\ meal_plan_member \ before.meal_plan_member = written
        /\ Unassigned = {} => Db = before

\* C21 witness: a reuse-path call for three members linked the one member
\* that held no plan; of the other two, one was on the returned plan and the
\* other on another plan of the same content.
C21_Witness ==
    /\ ReusePath
    /\ Cardinality(Targets(last)) = 3
    /\ Cardinality(Unassigned) = 1
    /\ \E m \in Targets(last) \ Unassigned :
          m \notin AssignedTo(before, last.ret.plan.id)
    /\ meal_plan_member # before.meal_plan_member

\* The last call was a store_for_members call that passed the date and
\* membership checks with no target member holding a plan for the date.
FreshPath ==
    /\ StoreReturned
    /\ PassesValidation(last)
    /\ Unassigned = Targets(last)

\* C22.  When no target member has an assignment for the target date,
\* store_for_members creates exactly one new MealPlan row, with the incoming
\* content, the target date and the household of the members, and exactly
\* one assignment to it for every member of the deduplicated target set.
C22_NewPlanWrites ==
    FreshPath =>
        /\ last.ret.status = "ok"
        /\ \E x \in meal_plan \ before.meal_plan :
              /\ meal_plan = before.meal_plan \cup {x}
              /\ x.id = last.ret.plan.id
              /\ \A p \in before.meal_plan : p.id # x.id
              /\ ContentOf(x) = IncomingContent(last.meal_plan_spec)
              /\ x.applied_on = last.target_date
              /\ HouseholdsOf(Targets(last)) = {x.household_id}
              /\ meal_plan_member \ before.meal_plan_member =
                    { [meal_plan_id |-> x.id, member_id |-> m] :
                        m \in Targets(last) }
              /\ before.meal_plan_member \subseteq meal_plan_member
              /\ AssignedTo(before, x.id) = {}

\* C22 witness: a call for a later date, with a list of additional members
\* that repeats an id, created a second plan for two members.
C22_Witness ==
    /\ FreshPath
    /\ before.meal_plan # {}
    /\ last.target_date > last.today
    /\ Len(last.additional_member_ids) = 2
    /\ Cardinality(Targets(last)) = 2
    /\ Cardinality(meal_plan) = Cardinality(before.meal_plan) + 1

\* The list is in strictly ascending order.
Ascending(ids) ==
    \A i, j \in DOMAIN ids : i < j => ids[i] < ids[j]

\* C23.  The record that store_for_members and get_for_member_and_date
\* return lists in applies_to_member_ids exactly the members assigned to the
\* returned plan in the committed state, in ascending order, and in
\* other_member_ids exactly that list without the reference member.
C23_ReturnedMemberLists ==
    (/\ last # Idle
     /\ last.op \in {"store_for_members", "get_for_member_and_date"}
     /\ last.ret.status = "ok")
    => LET plan == last.ret.plan
           reference == IF last.op = "store_for_members"
                        THEN last.requested_member_id
                        ELSE last.member_id
       IN  /\ Range(plan.applies_to_member_ids) = AssignedTo(Db, plan.id)
           /\ Ascending(plan.applies_to_member_ids)
           /\ Range(plan.other_member_ids)
                = AssignedTo(Db, plan.id) \ {reference}
           /\ Ascending(plan.other_member_ids)

\* C23 witness: get_for_member_and_date returned a plan of three members to
\* the member with the middle id.
C23_Witness ==
    /\ last # Idle
    /\ last.op = "get_for_member_and_date"
    /\ last.ret.status = "ok"
    /\ Len(last.ret.plan.applies_to_member_ids) = 3
    /\ last.ret.plan.other_member_ids = <<1, 3>>
    /\ last.member_id = 2

\* The last call is a get_for_member_and_date call made right after a
\* successful store_for_members call, by its requested member for its date.
ReadBackAfterStore ==
    /\ last # Idle
    /\ last.op = "get_for_member_and_date"
    /\ earlier # Idle
    /\ earlier.last.op = "store_for_members"
    /\ earlier.last.ret.status = "ok"
    /\ last.member_id = earlier.last.requested_member_id
    /\ last.target_date = earlier.last.target_date

\* C30.  Store/get round trip: with calls run one at a time, right after a
\* successful store_for_members(R, D, content, extra) the call
\* get_for_member_and_date(R, D) returns the plan id the store returned, with
\* source_meal_plan_id, breakfast, lunch, dinner and reasoning equal to the
\* incoming content and with R in applies_to_member_ids.
C30_StoreGetRoundTrip ==
    ReadBackAfterStore =>
        /\ last.ret.status = "ok"
        /\ last.ret.plan.id = earlier.last.ret.plan.id
        /\ last.ret.plan.source_meal_plan_id = earlier.last.meal_plan_spec.id
        /\ last.ret.plan.breakfast = earlier.last.meal_plan_spec.breakfast
        /\ last.ret.plan.lunch = earlier.last.meal_plan_spec.lunch
        /\ last.ret.plan.dinner = earlier.last.meal_plan_spec.dinner
        /\ last.ret.plan.reasoning = earlier.last.meal_plan_spec.reasoning
        /\ last.ret.plan.date = last.target_date
        /\ \E i \in DOMAIN last.ret.plan.applies_to_member_ids :
              last.ret.plan.applies_to_member_ids[i] = last.member_id

\* C30 witness: the read-back follows a store that reused a plan while
\* another plan for the same date, created later, belongs to another member.
C30_Witness ==
    /\ ReadBackAfterStore
    /\ last.ret.status = "ok"
    /\ earlier.before.meal_plan = meal_plan
    /\ \E p \in meal_plan :
          /\ p.id # last.ret.plan.id
          /\ p.applied_on = last.target_date
          /\ p.created_at > last.ret.plan.created_at

\* C27.  After a successful store_for_members every member of the target
\* set, the requested member and all additional members, is assigned to the
\* returned plan, so the returned applies_to_member_ids contains the whole
\* target set, also when target members held separately created plans of
\* identical content.
C27_WholeTargetSetOnReturnedPlan ==
    (StoreReturned /\ last.ret.status = "ok") =>
        /\ Targets(last) \subseteq AssignedTo(Db, last.ret.plan.id)
        /\ Targets(last) \subseteq Range(last.ret.plan.applies_to_member_ids)

\* The MealPlanMember rows the last store_for_members call, a successful
\* one, passed to db.add.
AddedByLastStore ==
    added_assignments(
        store_select(before, household_member, last.today,
                     last.requested_member_id, last.target_date,
                     last.meal_plan_spec, last.additional_member_ids),
        last.ret.plan.id)

\* C24.  There is at most one assignment row per (meal plan, member) pair in
\* every reachable state, also when additional_member_ids repeats an id or
\* names the requested member and when store_for_members is repeated for
\* members already on the plan: a successful call adds no row twice and no
\* row for a pair that has one, so the table grows by one pair per row added.
C24_OneAssignmentPerPlanAndMember ==
    (StoreReturned /\ last.ret.status = "ok") =>
        LET added == AddedByLastStore
        IN  /\ \A i, j \in DOMAIN added : added[i] = added[j] => i = j
            /\ \A i \in DOMAIN added : added[i] \notin before.meal_plan_member
            /\ meal_plan_member = before.meal_plan_member \cup Range(added)
            /\ Cardinality(meal_plan_member)
                 = Cardinality(before.meal_plan_member) + Len(added)

\* C24 witness: a call whose additional_member_ids names the requested
\* member and one more member, both already on the plan with a third, has
\* been made a second time and added nothing.
C24_Witness ==
    /\ StoreReturned
    /\ last.ret.status = "ok"
    /\ Len(last.additional_member_ids) = 2
    /\ last.requested_member_id \in Range(last.additional_member_ids)
    /\ Cardinality(Targets(last)) = 2
    /\ earlier # Idle
    /\ earlier.last.op = "store_for_members"
    /\ Targets(last) \subseteq AssignedTo(before, last.ret.plan.id)
    /\ Cardinality(AssignedTo(before, last.ret.plan.id)) = 3
    /\ AddedByLastStore = <<>>
    /\ Db = before

\* The target ids of the last store_for_members call that are the id of no
\* member.
Missing ==
    { m \in Targets(last) : \A r \in household_member : r.id # m }

\* C25.  If an id of the target set of store_for_members, called for a date
\* that is not past, is the id of no member, the call fails with a not-found
\* error that names exactly the missing ids in ascending order; the check
\* comes before the same-household check and the content-conflict check, and
\* no row is written.
C25_MissingMembersRejected ==
    (StoreReturned /\ last.target_date >= last.today /\ Missing # {}) =>
        /\ last.ret.status = "NotFoundError"
        /\ Range(last.ret.missing) = Missing
        /\ Len(last.ret.missing) = Cardinality(Missing)
        /\ Ascending(last.ret.missing)
        /\ Db = before

\* C25 witness: the call named two ids of no member, in descending order,
\* next to members of two households, one of which held a plan for the date
\* with content other than the incoming one.
C25_Witness ==
    /\ StoreReturned
    /\ last.target_date >= last.today
    /\ last.requested_member_id = 6
    /\ last.additional_member_ids = <<5, 4, 1>>
    /\ last.ret.status = "NotFoundError"
    /\ last.ret.missing = <<5, 6>>
    /\ Cardinality(HouseholdsOf(Targets(last) \ Missing)) = 2
    /\ \E p \in PlansOf(before, 1, last.target_date) :
          ContentOf(p) # IncomingContent(last.meal_plan_spec)

\* The last call is a store_for_members call by a member for itself alone,
\* made right after its successful revoke, for the date of the plan it
\* revoked, a date that is not past, with content other than that plan's.
RestoreAfterRevoke ==
    /\ StoreReturned
    /\ earlier # Idle
    /\ earlier.last.op = "revoke"
    /\ earlier.last.ret.status = "ok"
    /\ last.requested_member_id = earlier.last.member_id
    /\ last.additional_member_ids = <<>>
    /\ last.target_date >= last.today
    /\ \E revoked \in earlier.before.meal_plan :
          /\ revoked.id = earlier.last.meal_plan_id
          /\ revoked.applied_on = last.target_date
          /\ ContentOf(revoked) # IncomingContent(last.meal_plan_spec)

\* C26.  Revoke then re-store: after a successful revoke of member M's
\* assignment to its plan for date D, in either mode, the call
\* store_for_members(M, D, B, []) with content B other than the revoked
\* plan's succeeds without a conflict error, and M's plan for D then has
\* content B.
C26_RevokeThenReStore ==
    RestoreAfterRevoke =>
        /\ last.ret.status = "ok"
        /\ PlansOf(Db, last.requested_member_id, last.target_date) # {}
        /\ \A p \in PlansOf(Db, last.requested_member_id, last.target_date) :
              /\ ContentOf(p) = IncomingContent(last.meal_plan_spec)
              /\ p.id = last.ret.plan.id

\* C26 witness: the member left a plan it shared, by a revoke for itself
\* alone, and stored other content for the date; the other member is still
\* on the first plan.
C26_Witness ==
    /\ RestoreAfterRevoke
    /\ last.ret.status = "ok"
    /\ ~ earlier.last.revoke_for_all_members
    /\ \E p \in meal_plan :
          /\ p.id = earlier.last.meal_plan_id
          /\ p.applied_on = last.target_date
          /\ ContentOf(p) # IncomingContent(last.meal_plan_spec)
          /\ AssignedTo(Db, p.id) # {}

\* C28.  For every interleaving of two per-member revoke calls on plan P by
\* its only two assigned members, each in its own transaction that does not
\* see the other's uncommitted delete, P is deleted once both have
\* committed: with no revoke in progress, no plan is left with zero
\* assignments.
C28_ConcurrentRevokesDeletePlan ==
    (\A p \in Sessions : session[p] = Idle) =>
        \A x \in meal_plan : AssignedTo(Db, x.id) # {}

\* C29.  In every state reached by store_for_members, revoke and the
\* deletion of household members, which takes the member's assignment rows
\* with it, no MealPlan row has zero assignments: a plan whose last assigned
\* member is deleted is removed as well.
C29_MemberDeletionRemovesPlan ==
    /\ \A x \in meal_plan : AssignedTo(Db, x.id) # {}
    /\ (last # Idle /\ last.op = "delete_member") =>
          \A x \in before.meal_plan :
              AssignedTo(before, x.id) = {last.entity_id}
                  => x \notin meal_plan
============================================================================
